---- MODULE Spec2Model ----
(***************************************************************************)
(* Model of the download queue engine of Advanced Image Downloader Pro:    *)
(* IntelligentQueueManager (src/lib/queue-manager.js) and the service      *)
(* worker entry points that drive it (src/unnamed/part_003).               *)
(*                                                                         *)
(* JavaScript runs one task at a time; an async function runs until its    *)
(* first await that really suspends.  Every action below is one task:      *)
(* a timer callback, a message handler, a browser event, or the settling   *)
(* of one executeDownload promise together with the code that the awaiting *)
(* processQueue invocation runs before it suspends again.                  *)
(*                                                                         *)
(* The page side is modelled next to it: ContentScanner                    *)
(* (src/content/scanner.js), SitePatternManager (src/content/content.js)   *)
(* and AdvancedImageExtractor (src/content/conten.css).                    *)
(*                                                                         *)
(* AdvancedStorageManager (src/lib/queue-manager.js) is modelled over the  *)
(* three chrome.storage areas; one call of it is one action.               *)
(***************************************************************************)
EXTENDS Integers, Sequences, FiniteSets, Bags, TLC

\* ---------------------------------------------------------------- bounds
\* the scheduling runs (Spec)
MaxItems      == 3    \* items ever added to one queue
MaxBatch      == 2    \* items of one addToQueue call
MaxLimit      == 2    \* largest concurrentLimit option tried
MaxAttempts   == 2    \* executions of one item that are followed
MaxInFlight   == 3    \* executeDownload promises pending at once
\* the retry runs (SpecRetry)
RetryItems    == 1
MaxRetry      == 3    \* largest retryAttempts option tried
RetryAttempts == 3
RetryInFlight == 2
\* the restart runs (SpecControl)
ControlItems    == 4
ControlAttempts == 2
ControlInFlight == 3
ControlStarts   == 5  \* executions of one queue that are followed
\* the concurrency runs (SpecLimit)
LimitItems    == 6
LimitOption   == 3    \* the concurrentLimit option tried
LimitAttempts == 2
LimitInFlight == 4
LimitStarts   == 8    \* executions of one queue that are followed
\* the browser event runs (SpecEvents)
EventItems    == 2
EventLimit    == 2
EventInFlight == 2
\* the network runs (SpecNetwork)
NetQueues   == 2
NetItems    == 1
NetLimit    == 1
NetRetry    == 2      \* the retryAttempts option tried
NetInFlight == 2

\* the two-queue control runs (SpecFrame)
FrameQueues   == 2
FrameItems    == 1
FrameLimit    == 1    \* the concurrentLimit option tried
FrameInFlight == 2
\* the pause reason runs (SpecPause)
PauseItems    == 2
PauseLimit    == 1    \* the concurrentLimit option tried
PauseInFlight == 2
\* the restart runs (SpecRestart)
RestartItems    == 2
RestartLimit    == 1    \* the concurrentLimit option tried
RestartInFlight == 2
\* the filter runs (SpecFilter)
FilterImagesMax == 2  \* candidates of one filterAndProcessImages call
\* the infinite scroll runs (SpecScroll)
ScrollFoundMax == 2   \* images one basic scan of the loop returns
\* the site pattern runs (SpecPatterns)
MaxDetected   == 3    \* entries of this.detectedPatterns
MaxCustom     == 2    \* parseCustomPatterns calls with selectors
\* the storage runs (SpecStorage, SpecQuota, SpecSettings, SpecHistory)
MaxNow        == 5    \* the clock stops here
QueueLifetime == 2    \* saveDownloadQueue: expire (7 days), in clock steps
CacheLifetime == 1    \* setCache: this.cacheTTL (24 hours), in clock steps
EntryBytes    == 200  \* JSON length of one download history entry
HistoryAdds   == 104  \* addToDownloadHistory calls followed
\* the source quality runs (SpecSources)
Ancestors     == 4    \* ancestors an element has at most
\* the remote image runs (SpecRemote)
RemoteBlocked == 3    \* direct fetches that fail, over all calls
\* the scan runs (SpecScan)
ScanRuns      == 2    \* scan and deepScan requests answered
\* the overlapping execution runs (SpecOverlap)
OverlapItems    == 2
OverlapLimit    == 2    \* the concurrentLimit option tried
OverlapInFlight == 3
\* the progress runs (SpecProgress)
ProgressItems    == 2
ProgressRetry    == 2   \* the retryAttempts option tried
ProgressInFlight == 2
\* the rejected request runs (SpecErrors)
SizeSetting   == 3    \* settings.maxQueueSize in these runs (1000 as shipped)
ErrorBatch    == 2    \* items of one addToQueue call
ErrorInFlight == 1

\* ------------------------------------------------------ program constants
PagesPerDepth == 5     \* linkedPages.slice(0, 5)
ParentLevels  == 3    \* extractParentSources: depth < 3
CompressionThreshold == 1024   \* this.compressionThreshold
SyncItemSize  == 1024  \* selectOptimalStorage: dataSize > 1024
LocalOnlySize == 8192  \* selectOptimalStorage: dataSize > 8192
HistoryCap    == 1000  \* addToDownloadHistory: history.length > 1000
HistoryLimit  == 100   \* getDownloadHistory(limit = 100)
TrimKeep      == 500   \* handleQuotaExceeded: cleanupDownloadHistory(500)
MaxScrollAttempts == 10 \* maxScrollAttempts
NoChangeStop == 3      \* consecutiveNoChange >= 3
DefaultPriority      == 3      \* createQueue defaultOptions.priority
DownloadPriority     == 5      \* handleStartDownload: priority of the queue
DownloadItemPriority == 3      \* handleStartDownload: img.priority || 3
RetryDelay           == 1000   \* settings.retryDelay
DownloadLimit        == 3      \* handleStartDownload: settings.concurrentDownloads || 3
DownloadRetry        == 3      \* handleStartDownload: settings.retryAttempts || 3

\* priority given with an item; 0 is falsy in JavaScript, like no priority
PriorityInputs == {0, 5}

\* the batches of one addToQueue call: the priority given with each item
Batches(B) == UNION {[1..n -> B.prios] : n \in B.batches}

\* What one specification explores: the queues it creates, the items and
\* options it feeds them, and how many executions it follows.
SchedBudget ==
    [queues |-> 1, items |-> MaxItems, batches |-> 1..MaxBatch,
     prios |-> PriorityInputs, limits |-> 1..MaxLimit, retries |-> {1},
     autos |-> BOOLEAN,
     attempts |-> MaxAttempts, inflight |-> MaxInFlight,
     starts |-> MaxItems * MaxAttempts]

RetryBudget ==
    [queues |-> 1, items |-> RetryItems, batches |-> {1},
     prios |-> {0}, limits |-> {1}, retries |-> 1..MaxRetry,
     autos |-> BOOLEAN,
     attempts |-> RetryAttempts, inflight |-> RetryInFlight,
     starts |-> RetryItems * RetryAttempts]

ControlBudget ==
    [queues |-> 1, items |-> ControlItems, batches |-> {ControlItems},
     prios |-> {0}, limits |-> {2}, retries |-> {1},
     autos |-> BOOLEAN,
     attempts |-> ControlAttempts, inflight |-> ControlInFlight,
     starts |-> ControlStarts]

LimitBudget ==
    [queues |-> 1, items |-> LimitItems, batches |-> {LimitItems},
     prios |-> {0}, limits |-> {LimitOption}, retries |-> {1},
     autos |-> {FALSE},
     attempts |-> LimitAttempts, inflight |-> LimitInFlight,
     starts |-> LimitStarts]

EventBudget ==
    [queues |-> 1, items |-> EventItems, batches |-> {1},
     prios |-> {0}, limits |-> 0..EventLimit, retries |-> {1, 2},
     autos |-> BOOLEAN,
     attempts |-> 2, inflight |-> EventInFlight,
     starts |-> EventItems * 2]

NetBudget ==
    [queues |-> NetQueues, items |-> NetItems, batches |-> {1},
     prios |-> {0}, limits |-> {NetLimit}, retries |-> {NetRetry},
     autos |-> {FALSE},
     attempts |-> NetRetry, inflight |-> NetInFlight,
     starts |-> NetItems * NetRetry]

FrameBudget ==
    [queues |-> FrameQueues, items |-> FrameItems, batches |-> {1},
     prios |-> {0}, limits |-> {FrameLimit}, retries |-> {1},
     autos |-> {FALSE},
     attempts |-> 1, inflight |-> FrameInFlight,
     starts |-> FrameItems]

PauseBudget ==
    [queues |-> 1, items |-> PauseItems, batches |-> {1},
     prios |-> {0}, limits |-> {PauseLimit}, retries |-> {1},
     autos |-> BOOLEAN,
     attempts |-> 2, inflight |-> PauseInFlight,
     starts |-> PauseItems + 1]

RestartBudget ==
    [queues |-> 1, items |-> RestartItems, batches |-> {1},
     prios |-> {0}, limits |-> {RestartLimit}, retries |-> {1},
     autos |-> {FALSE},
     attempts |-> 2, inflight |-> RestartInFlight,
     starts |-> RestartItems + 1]

ErrorBudget ==
    [queues |-> 1, items |-> SizeSetting, batches |-> 1..ErrorBatch,
     prios |-> {0}, limits |-> {1}, retries |-> {1},
     autos |-> {FALSE},
     attempts |-> 1, inflight |-> ErrorInFlight,
     starts |-> SizeSetting, maxsize |-> SizeSetting]

OverlapBudget ==
    [queues |-> 1, items |-> OverlapItems, batches |-> {1},
     prios |-> {0}, limits |-> {OverlapLimit}, retries |-> {1},
     autos |-> BOOLEAN,
     attempts |-> 2, inflight |-> OverlapInFlight,
     starts |-> OverlapItems + 1]

ProgressBudget ==
    [queues |-> 1, items |-> ProgressItems, batches |-> {1},
     prios |-> {0}, limits |-> {1, 2}, retries |-> {ProgressRetry},
     autos |-> {TRUE},
     attempts |-> ProgressRetry, inflight |-> ProgressInFlight,
     starts |-> ProgressItems + 1]

VARIABLES
    queues,          \* queue objects ever created: id -> queue record
    qmap,            \* ids in this.queues (the active queues Map)
    pausedQueues,    \* this.pausedQueues
    completedQueues, \* keys of this.completedQueues
    invs,            \* bag of processQueue invocations suspended on a download
    retryTimers,     \* bag of pending scheduleRetry timeouts
    graceTimers,     \* queues with a pending completeQueue timeout
    online,          \* navigator.onLine
    hidden,          \* document.hidden
    storage,         \* the downloadQueue entry of the storage manager: id -> saved queue
    last,            \* history: the task that ran last: the processing tick,
                     \* a reload, the error of a request answered
                     \* {success: false, error}, or any other task
    scannedImages,   \* ContentScanner: keys of this.scannedImages
    settings,        \* ContentScanner: this.settings
    filtered,        \* history: the last filterAndProcessImages call
    dom,             \* the document: img elements, canvases, videos, backgrounds, links
    isScanning,      \* ContentScanner: this.isScanning
    abortController, \* ContentScanner: this.abortController, "none" for null
    mutationObserving, \* the MutationObserver observes document.body
    calls,           \* the scanCurrentPage and performDeepScan calls in progress,
                     \* the caller first
    finished,        \* history: the results returned to the message handlers
    scroll,          \* the locals of handleInfiniteScroll, and as history the
                     \* attempts made, the attempts in a row that added no
                     \* image and the last answer of triggerMoreContent
    site,            \* the page: its hostname and what its DOM looks like
    patterns,        \* SitePatternManager: this.patterns
    detectedPatterns, \* SitePatternManager: this.detectedPatterns
    remote,          \* the handleRemoteUrl call: its url, the attempt it is at,
                     \* the attempts made (history) and what it returned
    downloadStats,   \* AdvancedImageExtractor: this.downloadStats
    sources,         \* the sources array of the last findBestImageSource call
    areas,           \* chrome.storage: area -> key -> the record stored
    now,             \* Date.now()
    answer           \* history: the last AdvancedStorageManager call and
                     \* what it returned

\* the state of the queue manager
queueVars == <<queues, qmap, pausedQueues, completedQueues, invs, retryTimers,
               graceTimers, online, hidden, storage, last>>

\* the state of the content scripts
filterVars == <<scannedImages, settings, filtered>>

scanVars == <<dom, isScanning, abortController, mutationObserving, calls, finished>>

scrollVars == <<scroll>>

patternVars == <<site, patterns, detectedPatterns>>

extractorVars == <<remote, downloadStats, sources>>

\* the state of the storage manager
storageVars == <<areas, now, answer>>

pageVars == <<filterVars, scanVars, scrollVars, patternVars, extractorVars, storageVars>>

\* what the scan and filter steps leave alone
outsideScan == <<queueVars, scrollVars, patternVars, extractorVars, storageVars>>

vars == <<queueVars, pageVars>>

\* ---------------------------------------------------------------- helpers
Min2(a, b) == IF a <= b THEN a ELSE b

\* a || b of JavaScript on numbers: 0 is falsy
Or(a, b) == IF a # 0 THEN a ELSE b

SetMin(S) == CHOOSE x \in S : \A y \in S : x <= y

Pow2(n) == 2 ^ n

ItemIds(queue) == {queue.items[i].id : i \in 1..Len(queue.items)}

IdxOf(queue, id) == CHOOSE i \in 1..Len(queue.items) : queue.items[i].id = id

ItemOf(queue, id) == queue.items[IdxOf(queue, id)]

WithStatus(queue, st) ==
    {queue.items[i].id : i \in {j \in 1..Len(queue.items) : queue.items[j].status = st}}

\* ------------------------------------------------------------ sorting
\* comparator of processQueue: (a, b) => b.priority - a.priority
PriorityBefore(a, b) == a.priority > b.priority

\* comparator of sortQueueByPriority: priority descending, then addedAt ascending
QueueBefore(a, b) ==
    IF a.priority # b.priority THEN a.priority > b.priority
    ELSE a.addedAt < b.addedAt

\* Array.prototype.sort is stable: an element goes behind every element that
\* the comparator does not put after it.
RECURSIVE SortPending(_)
SortPending(s) ==
    IF s = <<>> THEN <<>>
    ELSE LET init == SortPending(SubSeq(s, 1, Len(s) - 1))
             x    == s[Len(s)]
             k    == Cardinality({i \in 1..Len(init) : ~PriorityBefore(x, init[i])})
         IN  SubSeq(init, 1, k) \o <<x>> \o SubSeq(init, k + 1, Len(init))

RECURSIVE SortItems(_)
SortItems(s) ==
    IF s = <<>> THEN <<>>
    ELSE LET init == SortItems(SubSeq(s, 1, Len(s) - 1))
             x    == s[Len(s)]
             k    == Cardinality({i \in 1..Len(init) : ~QueueBefore(x, init[i])})
         IN  SubSeq(init, 1, k) \o <<x>> \o SubSeq(init, k + 1, Len(init))

sortQueueByPriority(queue) == [queue EXCEPT !.items = SortItems(queue.items)]

\* ------------------------------------------------------------ queue objects
NewQueue(opts) ==
    [ status        |-> "created",
      options       |-> opts,
      items         |-> <<>>,
      progress      |-> [total |-> 0, completed |-> 0, failed |-> 0, inProgress |-> 0,
                         percentage |-> 0],
      activeDownloads |-> {},
      retryQueue    |-> <<>>,
      pauseReason   |-> "none" ]

\* one element of queueItems in addToQueue; n is the item's insertion number
NewItem(queue, prio, n, stamp) ==
    [ id       |-> n,
      priority |-> Or(prio, queue.options.priority),
      status   |-> "pending",
      attempts |-> 0,
      addedAt  |-> stamp,
      given    |-> prio,    \* item.priority as handed to addToQueue (history)
      failures |-> 0,       \* entries of queue.failedItems for this item
      lastDelay |-> 0 ]     \* delay of the retry scheduled last (history)

\* startDownload up to its await of executeDownload
startDownload(queue, id) ==
    LET i == IdxOf(queue, id) IN
    [queue EXCEPT !.items[i].status = "downloading",
                  !.items[i].attempts = @ + 1,
                  !.activeDownloads = @ \cup {id},
                  !.progress.inProgress = @ + 1]

handleDownloadComplete(queue, id) ==
    LET i == IdxOf(queue, id) IN
    [queue EXCEPT !.items[i].status = "completed",
                  !.activeDownloads = @ \ {id},
                  !.progress.inProgress = @ - 1,
                  !.progress.completed = @ + 1]

\* the test of handleDownloadError that decides on a retry
ShouldRetry(queue, id) == ItemOf(queue, id).attempts < queue.options.retryAttempts

\* a backoff whose exponent is the attempt number itself
RetryDelayOf_NoOffset(queue, id) ==
    queue.options.retryDelay * Pow2(ItemOf(queue, id).attempts)

\* scheduleRetry: retryDelay * Math.pow(2, item.attempts - 1)
RetryDelayOf(queue, id) ==
    queue.options.retryDelay * Pow2(ItemOf(queue, id).attempts - 1)

handleDownloadError(queue, id) ==
    LET i  == IdxOf(queue, id)
        q1 == [queue EXCEPT !.items[i].status = "failed",
                            !.items[i].failures = @ + 1,
                            !.activeDownloads = @ \ {id},
                            !.progress.inProgress = @ - 1,
                            !.progress.failed = @ + 1]
    IN  IF ShouldRetry(q1, id)
        THEN [q1 EXCEPT !.items[i].lastDelay = RetryDelayOf(q1, id)]
        ELSE q1

\* updateQueueProgress(queue); the percentage is kept to its integer part
updateQueueProgress(queue) ==
    LET totalItems == Len(queue.items) IN
    [queue EXCEPT !.progress.percentage =
       IF totalItems > 0
       THEN ((queue.progress.completed + queue.progress.failed) * 100) \div totalItems
       ELSE 0]

\* completeQueue without its setTimeout
completeQueue(queue) ==
    IF queue.status = "completed" THEN queue
    ELSE [queue EXCEPT !.status = "completed"]

\* the items processQueue selects
PendingItems(queue) ==
    LET pend == SelectSeq(queue.items, LAMBDA it : it.status = "pending")
        srt  == SortPending(pend)
        n    == Min2(Len(srt), queue.options.concurrentLimit
                                  - Cardinality(queue.activeDownloads))
    IN  [k \in 1..n |-> srt[k].id]

AvailableSlots(queue) ==
    queue.options.concurrentLimit - Cardinality(queue.activeDownloads)

\* processQueue up to its first suspension.  Result: the queue, the items the
\* invocation holds (<<>> when it returned), whether completeQueue set a timer.
processQueue(queue) ==
    IF AvailableSlots(queue) <= 0
    THEN [queue |-> queue, list |-> <<>>, grace |-> FALSE]
    ELSE LET list == PendingItems(queue) IN
         IF list = <<>>
         THEN IF queue.activeDownloads = {} /\ queue.retryQueue = <<>>
              THEN [queue |-> completeQueue(queue), list |-> <<>>,
                    grace |-> queue.status # "completed"]
              ELSE [queue |-> queue, list |-> <<>>, grace |-> FALSE]
         ELSE [queue |-> startDownload(queue, list[1]), list |-> list, grace |-> FALSE]

Invocation(q, list, loop) ==
    [q |-> q, cur |-> Head(list), rest |-> Tail(list), loop |-> loop]

\* the for-of loop of processQueues, entered at the first queue of the Map
\* whose id is at least `from`; it stops at the first download it awaits.
RECURSIVE processQueuesFrom(_, _, _)
processQueuesFrom(qs, from, gr) ==
    LET todo == {q \in qmap : q >= from} IN
    IF todo = {} THEN [queues |-> qs, inv |-> EmptyBag, grace |-> gr]
    ELSE LET q == SetMin(todo) IN
         IF qs[q].status # "running" THEN processQueuesFrom(qs, q + 1, gr)
         ELSE LET r == processQueue(qs[q])
                  nq == [qs EXCEPT ![q] = r.queue]
              IN  IF r.list # <<>>
                  THEN [queues |-> nq, inv |-> SetToBag({Invocation(q, r.list, TRUE)}),
                        grace |-> gr]
                  ELSE processQueuesFrom(nq, q + 1,
                                         IF r.grace THEN gr \cup {q} ELSE gr)

processQueues(qs) ==
    IF ~online THEN [queues |-> qs, inv |-> EmptyBag, grace |-> {}]
    ELSE processQueuesFrom(qs, 1, {})

\* startQueue, including its call of processQueue
startQueue(queue) ==
    IF queue.status = "running"
    THEN [queue |-> queue, list |-> <<>>, grace |-> FALSE]
    ELSE processQueue([queue EXCEPT !.status = "running"])

\* ------------------------------------------------------------ exploration bounds
\* executions started so far: the sum of the items' attempts
RECURSIVE Starts(_)
Starts(s) == IF s = <<>> THEN 0 ELSE Head(s).attempts + Starts(Tail(s))

InFlight(b) == BagCardinality(b)

WithinBounds(B, qs, b) ==
    /\ InFlight(b) <= B.inflight
    /\ \A q \in DOMAIN qs :
          /\ Starts(qs[q].items) <= B.starts
          /\ \A i \in 1..Len(qs[q].items) : qs[q].items[i].attempts <= B.attempts

\* ------------------------------------------------------------ ordered sets
\* A JavaScript Set iterates in insertion order; it is kept as a sequence.
SetAdd(s, x) == IF \E i \in 1..Len(s) : s[i] = x THEN s ELSE Append(s, x)

SetDelete(s, x) == SelectSeq(s, LAMBDA y : y # x)

SetHas(s, x) == \E i \in 1..Len(s) : s[i] = x

\* ------------------------------------------------------------ control calls
pauseQueue(queue, reason) ==
    [queue EXCEPT !.status = "paused", !.pauseReason = reason]

resumeQueue(queue) ==
    IF queue.status # "paused" THEN queue
    ELSE [queue EXCEPT
            !.status = "running",
            !.pauseReason = "none",
            !.items = [i \in 1..Len(queue.items) |->
                          IF queue.items[i].status = "downloading"
                          THEN [queue.items[i] EXCEPT !.status = "pending"]
                          ELSE queue.items[i]]]

stopQueue(queue) ==
    [queue EXCEPT !.status = "stopped", !.activeDownloads = {}]

\* pauseAllQueues: every queue of the Map that is not in pausedQueues
RECURSIVE pauseAllFrom(_, _, _, _)
pauseAllFrom(qs, pq, from, reason) ==
    LET todo == {q \in qmap : q >= from} IN
    IF todo = {} THEN [queues |-> qs, paused |-> pq]
    ELSE LET q == SetMin(todo) IN
         IF SetHas(pq, q) THEN pauseAllFrom(qs, pq, q + 1, reason)
         ELSE pauseAllFrom([qs EXCEPT ![q] = pauseQueue(qs[q], reason)],
                           SetAdd(pq, q), q + 1, reason)

pauseAllQueues(reason) == pauseAllFrom(queues, pausedQueues, 1, reason)

\* resumeAllQueues: resumeQueue for the ids of pausedQueues in insertion order;
\* resumeQueue throws for an id that is no longer in the Map, which ends the loop.
\* An id whose queue is not paused stays in the set.
RECURSIVE resumeAllFrom(_, _, _)
resumeAllFrom(qs, pq, k) ==
    IF k > Len(pq) THEN [queues |-> qs, paused |-> pq]
    ELSE LET q == pq[k] IN
         IF q \notin qmap THEN [queues |-> qs, paused |-> pq]
         ELSE IF qs[q].status # "paused" THEN resumeAllFrom(qs, pq, k + 1)
         ELSE resumeAllFrom([qs EXCEPT ![q] = resumeQueue(qs[q])],
                            SetDelete(pq, q), k)

resumeAllQueues == resumeAllFrom(queues, pausedQueues, 1)

AutoResume == TRUE    \* settings.autoResume

\* ------------------------------------------------------------ persistence
\* the ids of a set in ascending order: the order of the saved array
RECURSIVE Ascending(_)
Ascending(S) == IF S = {} THEN <<>> ELSE <<SetMin(S)>> \o Ascending(S \ {SetMin(S)})

\* persistQueues: every queue of the Map with activeDownloads: [], written as
\* JSON.  JSON keeps the strings, numbers, booleans and arrays of a queue.
persistQueues(qs, map) == [q \in map |-> [qs[q] EXCEPT !.activeDownloads = <<>>]]

\* a restore that takes the saved queue as it is
restoreQueue_AsSaved(saved) == [saved EXCEPT !.activeDownloads = {}]

\* the queue object loadPersistedQueues builds from one saved queue
restoreQueue(saved) ==
    [saved EXCEPT
        !.activeDownloads = {},
        !.status = "paused",
        !.items = [i \in 1..Len(saved.items) |->
                      IF saved.items[i].status = "downloading"
                      THEN [saved.items[i] EXCEPT !.status = "pending"]
                      ELSE saved.items[i]]]

loadPersistedQueues(saved) == [q \in DOMAIN saved |-> restoreQueue(saved[q])]

\* ------------------------------------------------------------ content scanner
\* A URL is a sequence of tokens: the part before the query string, and for a
\* URL with a query string the token "?" and the query.
Heads == {"https://h/a.jpg", "https://h/b.svg", "https://h/page"}

Urls == {<<h>> : h \in Heads} \cup {<<"https://h/a.jpg", "?", "v=2">>}

\* url.split('.').pop()?.split('?')[0]?.toLowerCase() of the tokens above
Extension(head) ==
    CASE head = "https://h/a.jpg" -> "jpg"
      [] head = "https://h/b.svg" -> "svg"
      [] OTHER -> head

determineImageType(url) ==
    IF Head(url) = "data:image/png" THEN "png"
    ELSE IF Head(url) = "blob:" THEN "blob"
    ELSE Extension(Head(url))

\* url.split('?')[0]
RECURSIVE BeforeQuery(_)
BeforeQuery(url) ==
    IF url = <<>> \/ Head(url) = "?" THEN <<>>
    ELSE <<Head(url)>> \o BeforeQuery(Tail(url))

\* a key without the query string removed
generateImageKey_WithQuery(imageData) ==
    <<imageData.url, imageData.width, imageData.height>>

\* `${url}_${width}x${height}` as the triple of its parts
generateImageKey(imageData) ==
    <<BeforeQuery(imageData.url), imageData.width, imageData.height>>

\* the extension, blob: and data:image/ tests and the patterns of isValidImageUrl
isValidImageUrl(url) ==
    /\ url # <<>>
    /\ \/ Extension(Head(url)) \in {"jpg", "jpeg", "png", "webp", "gif", "svg", "bmp", "tiff", "ico"}
       \/ Head(url) \in {"blob:", "data:image/png"}

getDefaultSettings ==
    [fileTypes |-> [jpg |-> TRUE, png |-> TRUE, webp |-> TRUE, gif |-> TRUE,
                    svg |-> FALSE, blob |-> TRUE],
     minWidth |-> 100, minHeight |-> 100, scanDepth |-> 2, infiniteScroll |-> TRUE]

\* { ...this.getDefaultSettings(), ...settings }
MergeSettings(given) == given @@ getDefaultSettings

passesFileTypeFilter(imageData, st) ==
    LET type == IF imageData.type # "" THEN imageData.type
                ELSE determineImageType(imageData.url) IN
    CASE type \in {"jpg", "jpeg"} -> st.fileTypes.jpg
      [] type = "png" -> st.fileTypes.png
      [] type = "webp" -> st.fileTypes.webp
      [] type = "gif" -> st.fileTypes.gif
      [] type = "svg" -> st.fileTypes.svg
      [] type \in {"canvas", "blob", "video-frame"} -> st.fileTypes.blob
      [] OTHER -> TRUE

\* a passesFilters that registers the key before it filters
passesFilters_KeyFirst(imageData, st, scanned) ==
    LET imageKey == generateImageKey(imageData) IN
    IF ~passesFileTypeFilter(imageData, st)
    THEN [pass |-> FALSE, scanned |-> scanned \cup {imageKey}, rejectedBy |-> "type"]
    ELSE IF imageData.width < st.minWidth \/ imageData.height < st.minHeight
    THEN [pass |-> FALSE, scanned |-> scanned \cup {imageKey}, rejectedBy |-> "size"]
    ELSE IF ~isValidImageUrl(imageData.url)
    THEN [pass |-> FALSE, scanned |-> scanned \cup {imageKey}, rejectedBy |-> "url"]
    ELSE IF imageKey \in scanned
    THEN [pass |-> FALSE, scanned |-> scanned, rejectedBy |-> "duplicate"]
    ELSE [pass |-> TRUE, scanned |-> scanned \cup {imageKey}, rejectedBy |-> ""]

\* passesFilters(imageData) with this.settings = st and the keys of
\* this.scannedImages = scanned; rejectedBy names the return that was taken
passesFilters(imageData, st, scanned) ==
    IF ~passesFileTypeFilter(imageData, st)
    THEN [pass |-> FALSE, scanned |-> scanned, rejectedBy |-> "type"]
    ELSE IF imageData.width < st.minWidth \/ imageData.height < st.minHeight
    THEN [pass |-> FALSE, scanned |-> scanned, rejectedBy |-> "size"]
    ELSE IF ~isValidImageUrl(imageData.url)
    THEN [pass |-> FALSE, scanned |-> scanned, rejectedBy |-> "url"]
    ELSE IF generateImageKey(imageData) \in scanned
    THEN [pass |-> FALSE, scanned |-> scanned, rejectedBy |-> "duplicate"]
    ELSE [pass |-> TRUE, scanned |-> scanned \cup {generateImageKey(imageData)},
          rejectedBy |-> ""]

\* images.filter(img => this.passesFilters(img)), left to right
RECURSIVE FilterImages(_, _, _)
FilterImages(images, st, scanned) ==
    IF images = <<>> THEN [images |-> <<>>, scanned |-> scanned, verdicts |-> <<>>]
    ELSE LET r == passesFilters(Head(images), st, scanned)
             rest == FilterImages(Tail(images), st, r.scanned) IN
         [images |-> IF r.pass THEN <<Head(images)>> \o rest.images ELSE rest.images,
          scanned |-> rest.scanned,
          verdicts |-> <<r.rejectedBy>> \o rest.verdicts]

\* estimateImageSize in tenths of a byte
estimateImageSize(width, height, type) ==
    LET pixels == width * height IN
    CASE type \in {"jpg", "jpeg"} -> pixels * 5
      [] type = "png" -> pixels * 20
      [] type = "webp" -> pixels * 3
      [] type = "gif" -> pixels * 10
      [] type = "svg" -> Min2(pixels, 500000)
      [] OTHER -> pixels * 15

processImageData(imageData) ==
    [url |-> imageData.url, width |-> imageData.width, height |-> imageData.height,
     type |-> imageData.type, estimatedSize |-> imageData.estimatedSize,
     id |-> generateImageKey(imageData)]

\* Array.prototype.sort((a, b) => b.estimatedSize - a.estimatedSize): stable
RECURSIVE InsertBySize(_, _)
InsertBySize(img, sorted) ==
    IF sorted = <<>> THEN <<img>>
    ELSE IF Head(sorted).estimatedSize <= img.estimatedSize THEN <<img>> \o sorted
    ELSE <<Head(sorted)>> \o InsertBySize(img, Tail(sorted))

RECURSIVE SortBySize(_)
SortBySize(images) ==
    IF images = <<>> THEN <<>>
    ELSE InsertBySize(Head(images), SortBySize(Tail(images)))

filterAndProcessImages(images, st, scanned) ==
    LET r == FilterImages(images, st, scanned) IN
    [images |-> SortBySize([i \in 1..Len(r.images) |-> processImageData(r.images[i])]),
     scanned |-> r.scanned, verdicts |-> r.verdicts]

\* the imageData extractImageData builds for an element with this url and size
ImageData(url, width, height) ==
    [url |-> url, width |-> width, height |-> height,
     type |-> determineImageType(url),
     estimatedSize |-> estimateImageSize(width, height, determineImageType(url))]

\* this.isValidImage(imageData): ContentScanner defines no method of this
\* name (only isValidImageUrl), so the call throws a TypeError
isValidImage(imageData) == "TypeError"

\* performBasicScan over the img elements that extractImageData has data for:
\* the first call of isValidImage throws out of the try block of its
\* selector before anything is pushed, and so for every selector
performBasicScan(imgs) ==
    IF \E i \in 1..Len(imgs) : isValidImage(imgs[i]) = "TypeError" THEN <<>>
    ELSE SelectSeq(imgs, LAMBDA img : isValidImage(img) = TRUE)

\* canvas.toDataURL('image/png') of a canvas or a video frame whose pixels
\* encode as el.png
DataUrl(el) == <<"data:image/png", el.png>>

\* estimateCanvasSize, in tenths of a byte
estimateCanvasSize(el) == el.width * el.height * 40

\* the canvas loop of extractCanvasImages
canvasCandidates(canvases, st) ==
    LET big == SelectSeq(canvases, LAMBDA c : c.width > st.minWidth /\ c.height > st.minHeight)
    IN [i \in 1..Len(big) |->
          [url |-> DataUrl(big[i]), width |-> big[i].width, height |-> big[i].height,
           type |-> "canvas", estimatedSize |-> estimateCanvasSize(big[i])]]

\* extractBlobFromBackgrounds over the elements with a blob: background
extractBlobFromBackgrounds(backgrounds, st) ==
    LET big == SelectSeq(backgrounds,
                         LAMBDA b : /\ isValidImageUrl(b.url)
                                    /\ b.width >= st.minWidth /\ b.height >= st.minHeight)
    IN [i \in 1..Len(big) |->
          [url |-> big[i].url, width |-> big[i].width, height |-> big[i].height,
           type |-> "blob", estimatedSize |-> big[i].width * big[i].height * 30]]

extractVideoFrames(videos, st) ==
    LET big == SelectSeq(videos, LAMBDA v : v.width > st.minWidth /\ v.height > st.minHeight)
    IN [i \in 1..Len(big) |->
          [url |-> DataUrl(big[i]), width |-> big[i].width, height |-> big[i].height,
           type |-> "video-frame", estimatedSize |-> estimateCanvasSize(big[i])]]

extractCanvasImages(document, st) ==
    IF ~st.fileTypes.blob THEN <<>>
    ELSE canvasCandidates(document.canvases, st)
            \o extractBlobFromBackgrounds(document.backgrounds, st)
            \o extractVideoFrames(document.videos, st)

\* images.filter with a Set of the keys seen
RECURSIVE RemoveSeen(_, _)
RemoveSeen(images, seen) ==
    IF images = <<>> THEN <<>>
    ELSE IF generateImageKey(Head(images)) \in seen THEN RemoveSeen(Tail(images), seen)
    ELSE <<Head(images)>> \o RemoveSeen(Tail(images), seen \cup {generateImageKey(Head(images))})

removeDuplicateImages(images) == RemoveSeen(images, {})

mergImageArrays(array1, array2) == removeDuplicateImages(array1 \o array2)

\* ------------------------------------------------------------ site patterns
\* this.patterns after the constructor, in the order of its keys; the lists
\* are cut to their first entries, and social, ecommerce and news, which are
\* built like webtoon and gallery, are left out
PatternKeys == <<"webtoon", "gallery", "generic", "custom">>

initializePatterns ==
    [webtoon |->
       [domains |-> {"webtoons.com", "tapas.io"},
        selectors |-> [images |-> <<"img[data-url]", "img[data-src]">>,
                       nextPage |-> <<".paginate_next", ".next">>,
                       pagination |-> <<".pagination a", ".episode-list a">>]],
     gallery |->
       [domains |-> {"imgur.com", "flickr.com"},
        selectors |-> [images |-> <<".gallery-image img", "img[data-original]">>,
                       nextPage |-> <<".next", ".pagination-next">>,
                       pagination |-> <<".pagination a", ".paginator a">>]],
     generic |->
       [domains |-> {"*"},
        selectors |-> [images |-> <<"img[src]", "img[data-src]", "img[data-original]">>,
                       nextPage |-> <<".next", ".pagination-next">>,
                       pagination |-> <<".pagination a", ".pager a">>]]]

\* a page no pattern matches, a page of a webtoon domain, and a page whose
\* DOM has two of the gallery indicators
PlainSite   == [hostname |-> "example.org", structure |-> "none"]
Sites ==
    [hostname : {"example.org", "www.webtoons.com"}, structure : {"none", "gallery"}]

\* domain.includes(patternDomain) || patternDomain.includes(domain)
DomainMatches(domain, patternDomain) ==
    \/ domain = patternDomain
    \/ domain = "www.webtoons.com" /\ patternDomain = "webtoons.com"

\* the first key of this.patterns whose domains match, "" for none
RECURSIVE FirstDomainMatch(_, _, _)
FirstDomainMatch(keys, pats, domain) ==
    IF keys = <<>> THEN ""
    ELSE IF Head(keys) \in DOMAIN pats /\ "*" \notin pats[Head(keys)].domains
            /\ \E d \in pats[Head(keys)].domains : DomainMatches(domain, d)
    THEN Head(keys)
    ELSE FirstDomainMatch(Tail(keys), pats, domain)

\* detectSiteType() and the detectByDOMStructure it falls back to
detectSiteType(pats, detected, page) ==
    LET byDomain == FirstDomainMatch(PatternKeys, pats, page.hostname) IN
    IF byDomain # ""
    THEN [type |-> byDomain, detectedPatterns |-> <<byDomain>> \o detected]
    ELSE IF page.structure # "none"
    THEN [type |-> page.structure, detectedPatterns |-> <<page.structure>> \o detected]
    ELSE [type |-> "generic", detectedPatterns |-> detected]

\* [...new Set(list)]
RECURSIVE Dedupe(_)
Dedupe(list) ==
    IF list = <<>> THEN <<>>
    ELSE <<Head(list)>> \o Dedupe(SelectSeq(Tail(list), LAMBDA x : x # Head(list)))

\* getOptimizedSelectors() with no argument
getOptimizedSelectors(pats, detected) ==
    LET siteType == IF detected # <<>> THEN Head(detected) ELSE "generic" IN
    IF siteType \notin DOMAIN pats THEN pats.generic.selectors
    ELSE [kind \in {"images", "nextPage", "pagination"} |->
            Dedupe(pats[siteType].selectors[kind] \o pats.generic.selectors[kind])]

\* addCustomPattern(selector, type)
addCustomPattern(pats, detected, selector, type) ==
    LET created == IF "custom" \in DOMAIN pats THEN pats
                   ELSE pats @@ [custom |->
                          [domains |-> {"*"},
                           selectors |-> [images |-> <<>>, nextPage |-> <<>>,
                                          pagination |-> <<>>]]] IN
    [patterns |-> [created EXCEPT !.custom.selectors[type] = <<selector>> \o @],
     detectedPatterns |-> <<"custom">> \o SelectSeq(detected, LAMBDA k : k # "custom")]

\* parseCustomPatterns(patternsText) over the lines of the text that are not
\* blank; a line is its tokens, with ":" a token of its own
RECURSIVE parseCustomPatterns(_, _, _)
parseCustomPatterns(pats, detected, lines) ==
    IF lines = <<>> THEN [patterns |-> pats, detectedPatterns |-> detected]
    ELSE LET line == Head(lines) IN
         IF Head(line) \in {"//", "#"}
         THEN parseCustomPatterns(pats, detected, Tail(lines))
         ELSE LET type == IF Len(line) >= 3 /\ line[2] = ":" THEN line[1] ELSE "images"
                  selector == IF Len(line) >= 3 /\ line[2] = ":" THEN line[3] ELSE line[1]
                  r == addCustomPattern(pats, detected, selector, type) IN
              parseCustomPatterns(r.patterns, r.detectedPatterns, Tail(lines))

\* no handleInfiniteScroll call yet
ScrollIdle ==
    [running |-> FALSE, attempt |-> 0, allImages |-> <<>>, previousImageCount |-> 0,
     consecutiveNoChange |-> 0, attempts |-> 0, idle |-> 0, loadedMore |-> TRUE]

\* a loop body that does not look at consecutiveNoChange
scrollAttempt_NoIdleStop(sc, currentImages, loadedMore) ==
    LET allImages == mergImageArrays(sc.allImages, currentImages)
        same == Len(allImages) = sc.previousImageCount
        more == sc.attempt + 1 < MaxScrollAttempts /\ loadedMore IN
    [running |-> more,
     attempt |-> IF more THEN sc.attempt + 1 ELSE sc.attempt,
     allImages |-> allImages,
     previousImageCount |-> IF same THEN sc.previousImageCount ELSE Len(allImages),
     consecutiveNoChange |-> IF same THEN sc.consecutiveNoChange + 1 ELSE 0,
     attempts |-> sc.attempts + 1,
     idle |-> IF Len(allImages) = Len(sc.allImages) THEN sc.idle + 1 ELSE 0,
     loadedMore |-> loadedMore]

\* one pass of the for loop of handleInfiniteScroll, from the basic scan to
\* the test of the next pass; running is false once the loop is left
scrollAttempt(sc, currentImages, loadedMore) ==
    LET allImages == mergImageArrays(sc.allImages, currentImages)
        same == Len(allImages) = sc.previousImageCount
        consecutiveNoChange == IF same THEN sc.consecutiveNoChange + 1 ELSE 0
        stops == same /\ consecutiveNoChange >= NoChangeStop
        \* triggerMoreContent is not called after the break
        more == ~stops /\ loadedMore /\ sc.attempt + 1 < MaxScrollAttempts IN
    [running |-> more,
     attempt |-> IF more THEN sc.attempt + 1 ELSE sc.attempt,
     allImages |-> allImages,
     previousImageCount |-> IF same THEN sc.previousImageCount ELSE Len(allImages),
     consecutiveNoChange |-> consecutiveNoChange,
     attempts |-> sc.attempts + 1,
     idle |-> IF Len(allImages) = Len(sc.allImages) THEN sc.idle + 1 ELSE 0,
     loadedMore |-> IF stops THEN sc.loadedMore ELSE loadedMore]

EmptyDocument ==
    [imgs |-> <<>>, canvases |-> <<>>, videos |-> <<>>, backgrounds |-> <<>>,
     linkedPages |-> <<>>]

\* new ContentScanner()
ScannerInit ==
    /\ scannedImages = {}
    /\ settings = <<>>
    /\ filtered = [given |-> <<>>, before |-> {}, images |-> <<>>, verdicts |-> <<>>]
    /\ isScanning = FALSE
    /\ abortController = "none"
    /\ mutationObserving = FALSE
    /\ calls = <<>>
    /\ finished = <<>>

ScrollInit == scroll = ScrollIdle

\* ------------------------------------------------------------ remote images
\* this.corsProxyUrls
corsProxyUrls ==
    <<"https://api.allorigins.win/raw?url=",
      "https://cors-anywhere.herokuapp.com/",
      "https://proxy.cors.sh/">>

\* encodeURIComponent(url)
encodeURIComponent(url) == <<"encoded", url>>

\* what attempt number n of a handleRemoteUrl call fetches: the url itself,
\* then proxyUrl + encodeURIComponent(url) for each proxy in turn
FetchTarget(url, n) ==
    IF n = 0 THEN <<url>> ELSE <<corsProxyUrls[n]>> \o encodeURIComponent(url)

\* how one attempt can end: fetchWithTimeout and response.blob() both go
\* well; fetchWithTimeout throws (network or CORS error, a status that is
\* not ok, the timeout); or the response arrives and response.blob() throws
Outcomes == {"ok", "fetchThrows", "blobThrows"}

NoCall == [url |-> "", at |-> 0, attempts |-> <<>>, result |-> [type |-> "none"], running |-> FALSE]

\* the fallback descriptor
Fallback(url, lastError) ==
    [url |-> url, type |-> "remote-fallback", downloadUrl |-> url, error |-> lastError]

\* a handleRemoteUrl that gives up one proxy before the end of the list
remoteAttempt_SkipsLastProxy(call, outcome) ==
    LET target == FetchTarget(call.url, call.at)
        made   == Append(call.attempts, [target |-> target, outcome |-> outcome]) IN
    IF outcome = "ok"
    THEN [call EXCEPT !.attempts = made, !.running = FALSE,
                      !.result = [url |-> call.url,
                                  type |-> IF call.at = 0 THEN "remote-direct" ELSE "remote-proxy",
                                  downloadUrl |-> <<"blob:", target>>]]
    ELSE IF call.at + 1 < Len(corsProxyUrls)
    THEN [call EXCEPT !.attempts = made, !.at = @ + 1]
    ELSE [call EXCEPT !.attempts = made, !.running = FALSE,
                      !.result = Fallback(call.url, outcome)]

\* one attempt of handleRemoteUrl(url, config) with config.useCorsProxy set,
\* as every caller sets it: the try block of the direct fetch or of one turn
\* of the proxy loop, and the return that follows it
remoteAttempt(call, outcome) ==
    LET target == FetchTarget(call.url, call.at)
        made   == Append(call.attempts, [target |-> target, outcome |-> outcome]) IN
    IF outcome = "ok"
    THEN [call EXCEPT !.attempts = made, !.running = FALSE,
                      !.result = [url |-> call.url,
                                  type |-> IF call.at = 0 THEN "remote-direct" ELSE "remote-proxy",
                                  downloadUrl |-> <<"blob:", target>>]]
    ELSE IF call.at < Len(corsProxyUrls)
    THEN [call EXCEPT !.attempts = made, !.at = @ + 1]
    ELSE [call EXCEPT !.attempts = made, !.running = FALSE,
                      !.result = Fallback(call.url, outcome)]

\* ------------------------------------------------------------ source quality
\* A url of the extractor is the sequence of its parts; a part that holds
\* one of the quality indicators is a part of its own.
highQualityIndicators ==
    {"zoom", "large", "full", "hires", "high", "original", "max",
     "1080", "1440", "2160", "4k", "uhd", "hd"}

lowQualityIndicators ==
    {"thumb", "thumbnail", "small", "preview", "low", "compressed",
     "tiny", "mini", "150", "200", "300"}

\* the indicators that text.includes(indicator) finds in one part of a url
\* or in the name of an attribute
Includes(part) ==
    CASE part = "thumbnail"      -> {"thumb", "thumbnail"}
      [] part = "uhd"            -> {"uhd", "hd"}
      [] part = "data-full"      -> {"full"}
      [] part = "data-original"  -> {"original"}
      [] part \in highQualityIndicators \cup lowQualityIndicators -> {part}
      [] OTHER                   -> {}

IncludedIn(text) == UNION {Includes(text[n]) : n \in 1..Len(text)}

Max(a, b) == IF a >= b THEN a ELSE b
Min(a, b) == IF a <= b THEN a ELSE b

\* estimateQuality(url, source)
estimateQuality(url, source) ==
    LET found == IncludedIn(url) \cup Includes(source)
        parts == {url[n] : n \in 1..Len(url)}
        quality == 50 + 20 * Cardinality(found \cap highQualityIndicators)
                      - 15 * Cardinality(found \cap lowQualityIndicators)
                      + (IF ".png" \in parts THEN 10 ELSE 0)
                      + (IF ".webp" \in parts THEN 5 ELSE 0)
                      - (IF ".gif" \in parts THEN 5 ELSE 0) IN
    Max(0, Min(100, quality))

\* the extractor's isValidImageUrl(url), for absolute urls: the path ends
\* with a supported extension, or the url holds one of the image words
extractorIsValidImageUrl(url) ==
    \/ url[Len(url)] \in {".jpg", ".png", ".webp", ".gif"}
    \/ \E n \in 1..Len(url) : url[n] \in {"thumbnail", "thumb", "photo", "gallery"}

srcAttributes == <<"data-original", "data-src", "src">>
parentAttrs   == <<"data-src", "data-full">>

IndexOf(seq, x) == CHOOSE n \in 1..Len(seq) : seq[n] = x

Source(url, type, attribute, depth, priority, quality) ==
    [url |-> url, type |-> type, attribute |-> attribute, depth |-> depth,
     priority |-> priority, quality |-> quality]

\* strategy 1: the attributes of the element, in priority order
RECURSIVE attributeSources(_, _)
attributeSources(attrs, names) ==
    IF names = <<>> THEN <<>>
    ELSE LET attr == Head(names) IN
         (IF attr \in DOMAIN attrs /\ extractorIsValidImageUrl(attrs[attr])
          THEN <<Source(attrs[attr], "attribute", attr, 0,
                        IndexOf(srcAttributes, attr) - 1, estimateQuality(attrs[attr], attr))>>
          ELSE <<>>)
         \o attributeSources(attrs, Tail(names))

\* parseSrcset(element), for descriptors of the form 1x, 2x, 4x
parseSrcset(srcset) ==
    [n \in 1..Len(srcset) |->
       Source(srcset[n].url, "srcset", "srcset", 0, 10, Min(srcset[n].x * 30, 100))]

\* the sources one ancestor gives at a depth
RECURSIVE parentSourcesAt(_, _, _)
parentSourcesAt(attrs, names, depth) ==
    IF names = <<>> THEN <<>>
    ELSE LET attr == Head(names) IN
         (IF attr \in DOMAIN attrs /\ extractorIsValidImageUrl(attrs[attr])
          THEN <<Source(attrs[attr], "parent", attr, depth, 20 + depth,
                        estimateQuality(attrs[attr], attr) - (depth * 10))>>
          ELSE <<>>)
         \o parentSourcesAt(attrs, Tail(names), depth)

\* extractParentSources(element): the ancestors from the parent upwards,
\* while (parent && depth < 3)
RECURSIVE extractParentSources(_, _)
extractParentSources(parents, depth) ==
    IF parents = <<>> \/ ~(depth < ParentLevels) THEN <<>>
    ELSE parentSourcesAt(Head(parents), parentAttrs, depth)
         \o extractParentSources(Tail(parents), depth + 1)

\* sources.sort(...): by quality, the higher first, then by priority
Before(a, b) ==
    IF a.quality # b.quality THEN a.quality > b.quality ELSE a.priority <= b.priority

RECURSIVE InsertSource(_, _)
InsertSource(sorted, x) ==
    IF sorted = <<>> THEN <<x>>
    ELSE IF Before(Head(sorted), x) THEN <<Head(sorted)>> \o InsertSource(Tail(sorted), x)
    ELSE <<x>> \o sorted

RECURSIVE SortSources(_)
SortSources(list) ==
    IF list = <<>> THEN <<>>
    ELSE InsertSource(SortSources(SubSeq(list, 1, Len(list) - 1)), list[Len(list)])

\* the sources array of findBestImageSource(element, config) after its sort,
\* for an element that is no canvas and has no background image
findBestImageSource(element) ==
    SortSources(attributeSources(element.attrs, srcAttributes)
                \o parseSrcset(element.srcset)
                \o extractParentSources(element.parents, 0))

\* ------------------------------------------------------------ storage manager
\* A value handed to the storage manager is its JSON content together with
\* two sizes estimateDataSize measures: bytes, the length of its JSON text,
\* and packed, the length of the JSON text of its gzip bytes.  The sizes
\* include the metadata fields of the record the value is stored in.
Value(json, bytes, packed) == [json |-> json, bytes |-> bytes, packed |-> packed]

StorageTypes == <<"session", "local", "sync">>
StoreKeys == {"settings", "downloadHistory", "downloadQueue", "cache_a", "backups"}
CacheKeys == {"cache_a"}      \* key.startsWith('cache_')

Absent == [present |-> FALSE]

EmptyAreas == [type \in {"session", "local", "sync"} |-> [key \in StoreKeys |-> Absent]]

\* compressData(data): the gzip bytes of the JSON text
compressData(value) == [form |-> "gzip", of |-> value.json, bytes |-> value.packed]

\* the value as it is stored when it is not compressed
Uncompressed(value) == [form |-> "json", of |-> value.json, bytes |-> value.bytes]

\* decompressData(compressedData): the value the gzip bytes hold; data that
\* is no byte array is returned as it is
decompressData(data) == data.of

\* the JavaScript value a stored data field is when it is not decompressed
Stored(data) == IF data.form = "json" THEN data.of ELSE [gzip |-> data.of]

\* shouldCompress(data)
shouldCompress(value) == value.bytes > CompressionThreshold

\* estimateDataSize(finalData)
estimateDataSize(finalData) == finalData.data.bytes

\* selectOptimalStorage(data, preferredType)
selectOptimalStorage(finalData, preferredType) ==
    LET dataSize == estimateDataSize(finalData) IN
    IF dataSize > LocalOnlySize THEN "local"
    ELSE IF dataSize > SyncItemSize
    THEN (IF preferredType = "sync" THEN "local" ELSE preferredType)
    ELSE preferredType

\* the options of set and get with their defaults
SetConfig(options) ==
    options @@ [storageType |-> "sync", compress |-> FALSE, expire |-> 0]

GetConfig(options) ==
    options @@ [storageType |-> "auto", ignoreExpired |-> FALSE]

\* readFromAnyStorage(key): session first, then local, then sync
RECURSIVE readFrom(_, _, _)
readFrom(store, types, key) ==
    IF types = <<>> THEN Absent
    ELSE IF store[Head(types)][key].present THEN store[Head(types)][key]
    ELSE readFrom(store, Tail(types), key)

readFromAnyStorage(store, key) == readFrom(store, StorageTypes, key)

\* remove(key) with storageType 'auto': from every area
remove(store, key) ==
    [type \in DOMAIN store |-> [store[type] EXCEPT ![key] = Absent]]

Expired(record, t) == record._expires # 0 /\ record._expires < t

\* a get that answers the default for an expired record and leaves it stored
get_KeepsExpired(store, t, key, defaultValue, options) ==
    LET config == GetConfig(options)
        data == IF config.storageType = "auto" THEN readFromAnyStorage(store, key)
                ELSE store[config.storageType][key] IN
    IF ~data.present
    THEN [store |-> store, found |-> data, result |-> defaultValue]
    ELSE IF Expired(data, t) /\ ~config.ignoreExpired
    THEN [store |-> store, found |-> data, result |-> defaultValue]
    ELSE [store |-> store, found |-> data,
          result |-> IF data._compressed THEN decompressData(data.data)
                     ELSE Stored(data.data)]

\* get(key, options): the areas after the call, the record read (history)
\* and the value returned
get(store, t, key, defaultValue, options) ==
    LET config == GetConfig(options)
        data == IF config.storageType = "auto" THEN readFromAnyStorage(store, key)
                ELSE store[config.storageType][key] IN
    IF ~data.present
    THEN [store |-> store, found |-> data, result |-> defaultValue]
    ELSE IF Expired(data, t) /\ ~config.ignoreExpired
    THEN [store |-> remove(store, key), found |-> data, result |-> defaultValue]
    ELSE [store |-> store, found |-> data,
          result |-> IF data._compressed THEN decompressData(data.data)
                     ELSE Stored(data.data)]

\* cleanupExpiredData()
cleanupExpiredData(store, t) ==
    [type \in DOMAIN store |->
       [key \in DOMAIN store[type] |->
          IF store[type][key].present /\ Expired(store[type][key], t)
          THEN Absent ELSE store[type][key]]]

\* invalidateCache() with no pattern
invalidateCache(store) ==
    [store EXCEPT !.session =
       [key \in DOMAIN store.session |->
          IF key \in CacheKeys THEN Absent ELSE store.session[key]]]

\* how a chrome.storage write can end: stored, refused with a quota error
\* (chrome.runtime.lastError), or refused with another error
WriteOutcomes == {"ok", "QUOTA_EXCEEDED", "storage error"}

\* the download history as a value: entries of EntryBytes each
HistoryValue(history) ==
    Value(history, EntryBytes * Len(history), EntryBytes * Len(history))

\* history.sort((a, b) => b.downloadedAt - a.downloadedAt); an entry is its
\* downloadedAt time
RECURSIVE SortNewestFirst(_)
SortNewestFirst(history) ==
    IF history = <<>> THEN <<>>
    ELSE LET newest == CHOOSE n \in 1..Len(history) :
                          \A m \in 1..Len(history) : history[m] <= history[n] IN
         <<history[newest]>>
           \o SortNewestFirst(SubSeq(history, 1, newest - 1)
                               \o SubSeq(history, newest + 1, Len(history)))

Take(seq, n) == SubSeq(seq, 1, Min(n, Len(seq)))

\* getDownloadHistory(limit): the areas after the read and the entries
getDownloadHistory(store, t, limit) ==
    LET r == get(store, t, "downloadHistory", <<>>, [storageType |-> "local"]) IN
    [store |-> r.store, history |-> Take(r.result, limit)]

RECURSIVE set(_, _, _, _, _, _)
RECURSIVE handleQuotaExceeded(_, _, _, _, _, _)
RECURSIVE cleanupDownloadHistory(_, _, _, _)

\* set(key, value, options) at time t, the writes it makes ending as
\* outcomes says in turn: the areas after the call, the message of the
\* error thrown ("" when the call returns true), the outcomes not used, and
\* as history whether a write of the call stored the value
set(store, t, key, value, options, outcomes) ==
    LET config     == SetConfig(options)
        compressed == config.compress \/ shouldCompress(value)
        finalData  == [present |-> TRUE,
                       data |-> IF compressed THEN compressData(value)
                                ELSE Uncompressed(value),
                       _compressed |-> compressed,
                       _expires |-> IF config.expire # 0 THEN t + config.expire ELSE 0]
        storageType == selectOptimalStorage(finalData, config.storageType)
        outcome     == Head(outcomes) IN
    IF outcome = "ok"
    THEN [store |-> [store EXCEPT ![storageType][key] = finalData],
          error |-> "", outcomes |-> Tail(outcomes), written |-> TRUE]
    ELSE IF outcome = "QUOTA_EXCEEDED"
    THEN LET cascade == handleQuotaExceeded(store, t, key, value, config, Tail(outcomes)) IN
         \* await this.handleQuotaExceeded(...); throw error
         IF cascade.error # "" THEN cascade
         ELSE [cascade EXCEPT !.error = outcome]
    ELSE [store |-> store, error |-> outcome, outcomes |-> Tail(outcomes),
          written |-> FALSE]

\* handleQuotaExceeded(key, value, config)
handleQuotaExceeded(store, t, key, value, config, outcomes) ==
    LET cleaned == invalidateCache(cleanupExpiredData(store, t)) IN
    IF ~config.compress
    THEN set(cleaned, t, key, value, [config EXCEPT !.compress = TRUE], outcomes)
    ELSE IF config.storageType = "sync"
    THEN set(cleaned, t, key, value, [config EXCEPT !.storageType = "local"], outcomes)
    ELSE LET trimmed == cleanupDownloadHistory(cleaned, t, TrimKeep, outcomes) IN
         [store |-> trimmed.store, error |-> "Unable to free enough storage space",
          outcomes |-> trimmed.outcomes, written |-> FALSE]

\* cleanupDownloadHistory(keepCount); an error of its write is caught
cleanupDownloadHistory(store, t, keepCount, outcomes) ==
    LET read == getDownloadHistory(store, t, Len(store.local.downloadHistory.data.of)) IN
    IF ~store.local.downloadHistory.present THEN [store |-> store, outcomes |-> outcomes]
    ELSE IF Len(read.history) > keepCount /\ outcomes # <<>>
    THEN LET saved == set(read.store, t, "downloadHistory",
                          HistoryValue(Take(SortNewestFirst(read.history), keepCount)),
                          [storageType |-> "local", compress |-> TRUE], outcomes) IN
         [store |-> saved.store, outcomes |-> saved.outcomes]
    ELSE [store |-> read.store, outcomes |-> outcomes]

\* saveDownloadHistory(history)
saveDownloadHistory(store, t, history, outcomes) ==
    set(store, t, "downloadHistory", HistoryValue(history),
        [storageType |-> "local", compress |-> TRUE], outcomes)

\* addToDownloadHistory(entry)
addToDownloadHistory(store, t, entry, outcomes) ==
    LET read      == getDownloadHistory(store, t, HistoryLimit)
        unshifted == <<entry>> \o read.history
        history   == IF Len(unshifted) > HistoryCap THEN Take(unshifted, HistoryCap)
                     ELSE unshifted IN
    saveDownloadHistory(read.store, t, history, outcomes)

\* no storage manager call yet
NoAnswer == [op |-> "none"]

\* new AdvancedStorageManager() on empty storage areas
StorageInit ==
    /\ areas = EmptyAreas
    /\ now = 1
    /\ answer = NoAnswer

\* new AdvancedImageExtractor()
ExtractorInit ==
    /\ remote = NoCall
    /\ downloadStats = [corsBlocked |-> 0]
    /\ sources = <<>>

\* new SitePatternManager()
PatternInit ==
    /\ patterns = initializePatterns
    /\ detectedPatterns = <<>>

PageInit ==
    /\ ScannerInit /\ dom = EmptyDocument /\ ScrollInit
    /\ PatternInit /\ site = PlainSite
    /\ ExtractorInit /\ StorageInit

\* ------------------------------------------------------------ initial state
QueueInit ==
    /\ queues = <<>>
    /\ qmap = {}
    /\ pausedQueues = <<>>
    /\ completedQueues = {}
    /\ invs = EmptyBag
    /\ retryTimers = EmptyBag
    /\ graceTimers = {}
    /\ online = TRUE
    /\ hidden = FALSE
    /\ storage = <<>>
    /\ last = "init"

Init == QueueInit /\ PageInit

Options(limit, retry, prio, auto) ==
    [priority |-> prio, concurrentLimit |-> limit, retryAttempts |-> retry,
     retryDelay |-> RetryDelay, autoStart |-> auto]

\* the queue after addToQueue(queueId, items); batch[k] is items[k].priority
addToQueue(queue, batch) ==
    LET n0    == Len(queue.items)
        added == [k \in 1..Len(batch) |-> NewItem(queue, batch[k], n0 + k, n0 + 1)]
    IN  sortQueueByPriority(
            [queue EXCEPT !.items = @ \o added,
                          !.progress.total = @ + Len(batch)])

\* the queue object createQueue builds, after the startQueue call of autoStart
createQueue(opts) ==
    IF opts.autoStart THEN startQueue(NewQueue(opts))
    ELSE [queue |-> NewQueue(opts), list |-> <<>>, grace |-> FALSE]

\* ------------------------------------------------------------ rejected calls
\* a createQueue that does not look for the id in the Map
createQueueAt_Overwrite(qs, map, id, opts) ==
    [error |-> "", queues |-> (id :> createQueue(opts).queue) @@ qs]

\* createQueue(queueId, options) for an id that may be in the Map already;
\* error is the message of the Error it throws, "" when it returns
createQueueAt(qs, map, id, opts) ==
    IF id \in map THEN [error |-> "Queue already exists", queues |-> qs]
    ELSE [error |-> "", queues |-> (id :> createQueue(opts).queue) @@ qs]

\* an addToQueue without the size check
addToQueueAt_NoSizeCheck(qs, map, id, batch, maxQueueSize) ==
    IF id \notin map THEN [error |-> "Queue not found", queues |-> qs]
    ELSE [error |-> "", queues |-> [qs EXCEPT ![id] = addToQueue(qs[id], batch)]]

\* addToQueue(queueId, items) with its two throws
addToQueueAt(qs, map, id, batch, maxQueueSize) ==
    IF id \notin map THEN [error |-> "Queue not found", queues |-> qs]
    ELSE IF Len(qs[id].items) + Len(batch) > maxQueueSize
    THEN [error |-> "Queue size limit exceeded", queues |-> qs]
    ELSE [error |-> "", queues |-> [qs EXCEPT ![id] = addToQueue(qs[id], batch)]]

ManageOps == {"start", "pause", "resume", "stop", "remove"}

\* the message of the Error a manageQueue operation throws for an id that is
\* not in the Map: startQueue, pauseQueue, resumeQueue and stopQueue throw,
\* removeQueue returns false
manageUnknownError(op) == IF op = "remove" THEN "" ELSE "Queue not found"

\* the answer of handleMessage: {success: false, error} for a thrown Error,
\* and the handler's {success: true, ...} otherwise
Answer(error) == IF error # "" THEN error ELSE "task"

\* ------------------------------------------------------------ actions
\* handleCreateQueue -> createQueue with a fresh id
CreateQueue(B, id, opts) ==
    /\ id \notin DOMAIN queues
    /\ id = Cardinality(DOMAIN queues) + 1
    /\ id <= B.queues
    /\ LET r == createQueue(opts) IN
       /\ queues' = (id :> r.queue) @@ queues
       /\ graceTimers' = IF r.grace THEN graceTimers \cup {id} ELSE graceTimers
    /\ qmap' = qmap \cup {id}
    /\ last' = "task"
    /\ UNCHANGED <<pageVars, storage, pausedQueues, completedQueues, invs, retryTimers, online, hidden>>

\* handleAddToQueue -> addToQueue
AddToQueue(B, q, batch) ==
    /\ q \in qmap
    /\ Len(queues[q].items) + Len(batch) <= B.items
    /\ queues' = [queues EXCEPT ![q] = addToQueue(queues[q], batch)]
    /\ last' = "task"
    /\ UNCHANGED <<pageVars, storage, qmap, pausedQueues, completedQueues, invs, retryTimers,
                   graceTimers, online, hidden>>

\* handleStartDownload: createQueue with autoStart, then addToQueue
HandleStartDownload(B, id, limit, retry, batch) ==
    /\ id \notin DOMAIN queues
    /\ id = Cardinality(DOMAIN queues) + 1
    /\ id <= B.queues
    /\ LET r == createQueue(Options(Or(limit, DownloadLimit), Or(retry, DownloadRetry),
                                     DownloadPriority, TRUE))
           b == [k \in 1..Len(batch) |-> Or(batch[k], DownloadItemPriority)]
       IN
       /\ queues' = (id :> addToQueue(r.queue, b)) @@ queues
       /\ graceTimers' = IF r.grace THEN graceTimers \cup {id} ELSE graceTimers
    /\ qmap' = qmap \cup {id}
    /\ last' = "task"
    /\ UNCHANGED <<pageVars, storage, pausedQueues, completedQueues, invs, retryTimers, online, hidden>>

\* manageQueue start -> startQueue
StartQueue(B, q) ==
    /\ q \in qmap
    /\ LET r == startQueue(queues[q])
           b == IF r.list = <<>> THEN invs
                ELSE invs (+) SetToBag({Invocation(q, r.list, FALSE)})
           nq == [queues EXCEPT ![q] = r.queue]
       IN
       /\ WithinBounds(B, nq, b)
       /\ queues' = nq
       /\ invs' = b
       /\ graceTimers' = IF r.grace THEN graceTimers \cup {q} ELSE graceTimers
       /\ pausedQueues' = IF queues[q].status = "running" THEN pausedQueues
                          ELSE SetDelete(pausedQueues, q)
    /\ last' = "task"
    /\ UNCHANGED <<pageVars, storage, qmap, completedQueues, retryTimers, online, hidden>>

\* a pause request that pauses every queue of the Map
PauseQueue_AllQueues(q) ==
    /\ q \in qmap
    /\ LET r == pauseAllQueues("user_request") IN
       /\ queues' = r.queues
       /\ pausedQueues' = r.paused
    /\ last' = "task"
    /\ UNCHANGED <<pageVars, storage, qmap, completedQueues, invs, retryTimers, graceTimers, online, hidden>>

\* manageQueue pause -> pauseQueue(queueId, 'user_request')
PauseQueue(q) ==
    /\ q \in qmap
    /\ queues' = [queues EXCEPT ![q] = pauseQueue(queues[q], "user_request")]
    /\ pausedQueues' = SetAdd(pausedQueues, q)
    /\ last' = "task"
    /\ UNCHANGED <<pageVars, storage, qmap, completedQueues, invs, retryTimers, graceTimers, online, hidden>>

\* manageQueue resume -> resumeQueue
ResumeQueue(q) ==
    /\ q \in qmap
    /\ queues' = [queues EXCEPT ![q] = resumeQueue(queues[q])]
    /\ pausedQueues' = IF queues[q].status = "paused" THEN SetDelete(pausedQueues, q)
                       ELSE pausedQueues
    /\ last' = "task"
    /\ UNCHANGED <<pageVars, storage, qmap, completedQueues, invs, retryTimers, graceTimers, online, hidden>>

\* manageQueue stop -> stopQueue
StopQueue(q) ==
    /\ q \in qmap
    /\ queues' = [queues EXCEPT ![q] = stopQueue(queues[q])]
    /\ pausedQueues' = SetDelete(pausedQueues, q)
    /\ last' = "task"
    /\ UNCHANGED <<pageVars, storage, qmap, completedQueues, invs, retryTimers, graceTimers, online, hidden>>

\* manageQueue remove -> removeQueue
RemoveQueue(q) ==
    /\ q \in qmap
    /\ queues' = [queues EXCEPT ![q] = stopQueue(queues[q])]
    /\ pausedQueues' = SetDelete(pausedQueues, q)
    /\ completedQueues' = completedQueues \cup {q}
    /\ qmap' = qmap \ {q}
    /\ last' = "task"
    /\ UNCHANGED <<pageVars, storage, invs, retryTimers, graceTimers, online, hidden>>

\* the setInterval callback of startBackgroundProcessing: processQueues
Tick(B) ==
    /\ LET r == processQueues(queues)
           b == invs (+) r.inv
       IN
       /\ WithinBounds(B, r.queues, b)
       /\ queues' = r.queues
       /\ invs' = b
       /\ graceTimers' = graceTimers \cup r.grace
       /\ last' = IF r.grace # {} THEN "tick completed" ELSE "tick"
    /\ UNCHANGED <<pageVars, storage, qmap, pausedQueues, completedQueues, retryTimers, online, hidden>>

\* The promise of executeDownload settles for the invocation v: startDownload
\* handles the outcome, then processQueue starts the next item of its list or
\* returns, and a processQueues loop goes on with the queues that follow.
Settle(B, v, ok) ==
    /\ v \in BagToSet(invs)
    /\ LET q1 == IF ok THEN handleDownloadComplete(queues[v.q], v.cur)
                 ELSE handleDownloadError(queues[v.q], v.cur)
           tm == IF ~ok /\ ShouldRetry(q1, v.cur)
                 THEN SetToBag({[q |-> v.q, item |-> v.cur,
                                 delay |-> RetryDelayOf(q1, v.cur)]})
                 ELSE EmptyBag
           others == invs (-) SetToBag({v})
           r == IF v.rest # <<>>
                THEN [queues |-> [queues EXCEPT ![v.q] = startDownload(q1, Head(v.rest))],
                      inv |-> SetToBag({Invocation(v.q, v.rest, v.loop)}),
                      grace |-> {}]
                ELSE IF v.loop
                THEN processQueuesFrom([queues EXCEPT ![v.q] = q1], v.q + 1, {})
                ELSE [queues |-> [queues EXCEPT ![v.q] = q1], inv |-> EmptyBag,
                      grace |-> {}]
       IN
       /\ WithinBounds(B, r.queues, others (+) r.inv)
       /\ queues' = r.queues
       /\ invs' = others (+) r.inv
       /\ retryTimers' = retryTimers (+) tm
       /\ graceTimers' = graceTimers \cup r.grace
    /\ last' = "task"
    /\ UNCHANGED <<pageVars, storage, qmap, pausedQueues, completedQueues, online, hidden>>

DownloadSucceeds(B, v) == Settle(B, v, TRUE)

DownloadFails(B, v) == Settle(B, v, FALSE)

\* the progressCallback of executeDownload for the download the invocation v
\* awaits: updateItemProgress, which calls updateQueueProgress
ItemProgress(v) ==
    /\ v \in BagToSet(invs)
    /\ queues' = [queues EXCEPT ![v.q] = updateQueueProgress(queues[v.q])]
    /\ last' = "task"
    /\ UNCHANGED <<pageVars, storage, qmap, pausedQueues, completedQueues, invs,
                   retryTimers, graceTimers, online, hidden>>

\* the setTimeout callback of scheduleRetry
RetryTimerFires(t) ==
    /\ t \in BagToSet(retryTimers)
    /\ retryTimers' = retryTimers (-) SetToBag({t})
    /\ queues' = IF queues[t.q].status = "running"
                 THEN [queues EXCEPT ![t.q].items[IdxOf(queues[t.q], t.item)].status = "pending"]
                 ELSE queues
    /\ last' = "task"
    /\ UNCHANGED <<pageVars, storage, qmap, pausedQueues, completedQueues, invs, graceTimers, online, hidden>>

\* the setTimeout callback of completeQueue
GraceTimerFires(q) ==
    /\ q \in graceTimers
    /\ graceTimers' = graceTimers \ {q}
    /\ completedQueues' = completedQueues \cup {q}
    /\ qmap' = qmap \ {q}
    /\ last' = "task"
    /\ UNCHANGED <<pageVars, storage, queues, pausedQueues, invs, retryTimers, online, hidden>>

\* window 'offline' / 'online' events -> handleNetworkChange
GoOffline ==
    /\ online
    /\ online' = FALSE
    /\ LET r == pauseAllQueues("network") IN
       /\ queues' = r.queues
       /\ pausedQueues' = r.paused
    /\ last' = "task"
    /\ UNCHANGED <<pageVars, storage, qmap, completedQueues, invs, retryTimers, graceTimers, hidden>>

GoOnline ==
    /\ ~online
    /\ online' = TRUE
    /\ LET r == IF AutoResume THEN resumeAllQueues
                ELSE [queues |-> queues, paused |-> pausedQueues] IN
       /\ queues' = r.queues
       /\ pausedQueues' = r.paused
    /\ last' = "task"
    /\ UNCHANGED <<pageVars, storage, qmap, completedQueues, invs, retryTimers, graceTimers, hidden>>

\* document 'visibilitychange' event
VisibilityChange ==
    /\ hidden' = ~hidden
    /\ LET r == IF ~hidden THEN pauseAllQueues("visibility") ELSE resumeAllQueues IN
       /\ queues' = r.queues
       /\ pausedQueues' = r.paused
    /\ last' = "task"
    /\ UNCHANGED <<pageVars, storage, qmap, completedQueues, invs, retryTimers, graceTimers, online>>

\* the setInterval callback that calls persistQueues
PersistQueues ==
    /\ storage' = persistQueues(queues, qmap)
    /\ last' = "task"
    /\ UNCHANGED <<pageVars, queues, qmap, pausedQueues, completedQueues, invs, retryTimers,
                   graceTimers, online, hidden>>

\* The page is reloaded: a new queue manager is constructed and init() calls
\* loadPersistedQueues.  The objects, timers and promises of the old page are gone.
Restart ==
    /\ queues' = loadPersistedQueues(storage)
    /\ qmap' = DOMAIN storage
    /\ pausedQueues' = Ascending(DOMAIN storage)
    /\ completedQueues' = {}
    /\ invs' = EmptyBag
    /\ retryTimers' = EmptyBag
    /\ graceTimers' = {}
    /\ last' = "restart"
    /\ UNCHANGED <<pageVars, storage, online, hidden>>

\* handleCreateQueue for an id that is in the Map
CreateExistingQueue(id, opts) ==
    /\ id \in qmap
    /\ LET r == createQueueAt(queues, qmap, id, opts) IN
       /\ queues' = r.queues
       /\ last' = Answer(r.error)
    /\ UNCHANGED <<pageVars, storage, qmap, pausedQueues, completedQueues, invs, retryTimers,
                   graceTimers, online, hidden>>

\* handleAddToQueue for an id that is not in the Map or a batch that does not fit
AddToQueueRejected(B, id, batch) ==
    /\ IF id \in qmap THEN Len(queues[id].items) + Len(batch) > B.maxsize ELSE TRUE
    /\ LET r == addToQueueAt(queues, qmap, id, batch, B.maxsize) IN
       /\ queues' = r.queues
       /\ last' = Answer(r.error)
    /\ UNCHANGED <<pageVars, storage, qmap, pausedQueues, completedQueues, invs, retryTimers,
                   graceTimers, online, hidden>>

\* handleManageQueue for an id that is not in the Map
ManageUnknownQueue(op, id) ==
    /\ id \notin qmap
    /\ last' = Answer(manageUnknownError(op))
    /\ UNCHANGED <<pageVars, storage, queues, qmap, pausedQueues, completedQueues, invs,
                   retryTimers, graceTimers, online, hidden>>

QueueIds == DOMAIN queues

\* queues are created, filled and started through the queue manager
QueueNext(B) ==
    \/ \E l \in B.limits, r \in B.retries, a \in B.autos :
          CreateQueue(B, Cardinality(DOMAIN queues) + 1, Options(l, r, DefaultPriority, a))
    \/ \E q \in QueueIds, b \in Batches(B) : AddToQueue(B, q, b)
    \/ \E q \in QueueIds : StartQueue(B, q)

\* the startDownload message of the popup
DownloadNext(B) ==
    \E l \in B.limits, r \in B.retries, b \in Batches(B) :
        HandleStartDownload(B, Cardinality(DOMAIN queues) + 1, l, r, b)

\* the processing tick runs, downloads settle, completed queues are archived
RunNext(B) ==
    \/ Tick(B)
    \/ \E v \in BagToSet(invs) : DownloadSucceeds(B, v)
    \/ \E v \in BagToSet(invs) : DownloadFails(B, v)
    \/ \E q \in QueueIds : GraceTimerFires(q)

\* the scheduling engine
EngineNext(B) == QueueNext(B) \/ DownloadNext(B) \/ RunNext(B)

\* the retry timers; a queue whose retryAttempts is 1 never sets one
TimerNext == \E t \in BagToSet(retryTimers) : RetryTimerFires(t)

\* the manageQueue operations pause and resume
PauseNext ==
    \/ \E q \in QueueIds : PauseQueue(q)
    \/ \E q \in QueueIds : ResumeQueue(q)

\* the manageQueue operations stop and remove
StopNext ==
    \/ \E q \in QueueIds : StopQueue(q)
    \/ \E q \in QueueIds : RemoveQueue(q)

\* the browser events
EventNext ==
    \/ GoOffline
    \/ GoOnline
    \/ VisibilityChange

Next == EngineNext(SchedBudget)

\* one queue, its items and the processing tick
Spec == Init /\ [][Next]_vars

\* the downloads in flight report their progress
ProgressNext == \E v \in BagToSet(invs) : ItemProgress(v)

ProgressRunNext == EngineNext(ProgressBudget) \/ TimerNext \/ ProgressNext

\* one queue whose downloads report progress, fail and are retried
SpecProgress == Init /\ [][ProgressRunNext]_vars

OverlapNext == EngineNext(OverlapBudget) \/ PauseNext

\* one queue with room for two downloads, paused and resumed
SpecOverlap == Init /\ [][OverlapNext]_vars

RetryNext == EngineNext(RetryBudget) \/ TimerNext \/ PauseNext

\* one queue with retries that is paused and resumed
SpecRetry == Init /\ [][RetryNext]_vars

RestartNext == EngineNext(ControlBudget) \/ StopNext

\* one queue of four items that is stopped and started again
SpecControl == Init /\ [][RestartNext]_vars

LimitNext == QueueNext(LimitBudget) \/ RunNext(LimitBudget)

\* one queue of six items, started by hand and driven by the processing tick
SpecLimit == Init /\ [][LimitNext]_vars

EventsNext == EngineNext(EventBudget) \/ TimerNext \/ EventNext

\* one queue under the network and visibility events
SpecEvents == Init /\ [][EventsNext]_vars

NetworkNext == EngineNext(NetBudget) \/ TimerNext \/ GoOffline \/ GoOnline

\* two queues while the network goes away and comes back
SpecNetwork == Init /\ [][NetworkNext]_vars

FrameNext == EngineNext(FrameBudget) \/ PauseNext \/ StopNext

\* two queues that are paused, resumed, stopped and removed by hand
SpecFrame == Init /\ [][FrameNext]_vars

ReasonNext == EngineNext(PauseBudget) \/ EventNext \/ PauseNext

\* one queue that is paused by hand, by the network and by the tab's visibility
SpecPause == Init /\ [][ReasonNext]_vars

\* the persistence interval and the reload of the page
PersistNext ==
    \/ PersistQueues
    \/ Restart

ReloadNext == EngineNext(RestartBudget) \/ PersistNext \/ GoOffline \/ GoOnline

\* one queue that is saved and reloaded while the network goes and comes
SpecRestart == Init /\ [][ReloadNext]_vars

\* the ids a request may name: 0 was never created
RequestIds(B) == 0..B.queues

\* the requests the queue manager rejects
ErrorNext(B) ==
    \/ \E id \in RequestIds(B), l \in B.limits, r \in B.retries, a \in B.autos :
          CreateExistingQueue(id, Options(l, r, DefaultPriority, a))
    \/ \E id \in RequestIds(B), b \in Batches(B) : AddToQueueRejected(B, id, b)
    \/ \E op \in ManageOps, id \in RequestIds(B) : ManageUnknownQueue(op, id)

RejectNext == EngineNext(ErrorBudget) \/ ErrorNext(ErrorBudget)

\* one queue of at most maxQueueSize items and the requests that are rejected
SpecErrors == Init /\ [][RejectNext]_vars

TypeOK ==
    /\ qmap \subseteq DOMAIN queues
    /\ \A q \in DOMAIN queues :
          queues[q].status \in {"created", "running", "paused", "stopped", "completed"}

\* ------------------------------------------------------------ page actions
\* the sizes an element reports
Sizes == {<<200, 200>>, <<150, 300>>}

Candidates == {ImageData(u, sz[1], sz[2]) : u \in Urls, sz \in Sizes}

CandidateLists == UNION {[1..n -> Candidates] : n \in 0..FilterImagesMax}

\* the settings object of a scan request
GivenSettings ==
    {<<>>,
     [minWidth |-> 200, minHeight |-> 200],
     [fileTypes |-> [jpg |-> TRUE, png |-> TRUE, webp |-> TRUE, gif |-> TRUE,
                     svg |-> TRUE, blob |-> TRUE]]}

\* phase 5 of a scan that found these images
FilterAndProcess(given, images) ==
    /\ settings' = MergeSettings(given)
    /\ LET r == filterAndProcessImages(images, settings', scannedImages) IN
       /\ scannedImages' = r.scanned
       /\ filtered' = [given |-> images, before |-> scannedImages,
                       images |-> r.images, verdicts |-> r.verdicts]
    /\ UNCHANGED <<outsideScan, scanVars>>

FilterNext == \E given \in GivenSettings, images \in CandidateLists :
                 FilterAndProcess(given, images)

\* filterAndProcessImages on every list of candidates, call after call on one scanner
SpecFilter == Init /\ [][FilterNext]_vars

\* ------------------------------------------------------------ scans
Canvas200 == [png |-> "A", width |-> 200, height |-> 200]
Canvas300 == [png |-> "B", width |-> 300, height |-> 300]
Video300  == [png |-> "V", width |-> 300, height |-> 300]
Blob200   == [url |-> <<"blob:", "1">>, width |-> 200, height |-> 200]

\* the pages that are scanned
Documents ==
    [imgs : {<<>>, <<ImageData(<<"https://h/a.jpg">>, 200, 200)>>},
     canvases : {<<>>, <<Canvas200>>, <<Canvas300>>, <<Canvas200, Canvas300>>,
                 <<Canvas300, Canvas300>>},
     videos : {<<>>, <<Video300>>},
     backgrounds : {<<>>, <<Blob200>>},
     linkedPages : {<<>>, <<"https://h/page2">>}]

ScanInit ==
    /\ QueueInit /\ ScannerInit /\ dom \in Documents /\ ScrollInit
    /\ PatternInit /\ site = PlainSite
    /\ ExtractorInit /\ StorageInit

StartScanning ==
    /\ isScanning' = TRUE
    /\ abortController' = "live"
    /\ mutationObserving' = TRUE

StopScanning ==
    /\ isScanning' = FALSE
    /\ abortController' = "none"
    /\ mutationObserving' = FALSE

Frame(op, given) ==
    [op |-> op, given |-> given, inner |-> "running", current |-> <<>>,
     allImages |-> <<>>, pages |-> <<>>]

Result(op, given, success, found, images, current) ==
    [op |-> op, given |-> given, success |-> success, found |-> found,
     images |-> images, current |-> current]

\* phases 1 to 5 of scanCurrentPage; the lazy loading and infinite scroll
\* phases replace foundImages by what performBasicScan finds then
ScanResult(document, st, scanned) ==
    LET foundImages == performBasicScan(document.imgs) \o extractCanvasImages(document, st)
        r == filterAndProcessImages(foundImages, st, scanned) IN
    [found |-> foundImages, images |-> r.images, scanned |-> r.scanned,
     verdicts |-> r.verdicts]

\* findLinkedPages and linkedPages.slice(0, 5), when scanDepth > 1
PagesToScan(document, st) ==
    IF st.scanDepth > 1
    THEN SubSeq(document.linkedPages, 1, Min2(PagesPerDepth, Len(document.linkedPages)))
    ELSE <<>>

\* handleScanPage: scanCurrentPage up to its first await
ScanCurrentPage(given) ==
    /\ calls = <<>>
    /\ Len(finished) < ScanRuns
    /\ settings' = MergeSettings(given)
    /\ StartScanning
    /\ calls' = <<Frame("scan", given)>>
    /\ UNCHANGED <<outsideScan, scannedImages, filtered, dom, finished>>

\* handleDeepScan: performDeepScan up to the first await of the
\* scanCurrentPage it calls
PerformDeepScan(given) ==
    /\ calls = <<>>
    /\ Len(finished) < ScanRuns
    /\ settings' = MergeSettings(given)
    /\ StartScanning
    /\ calls' = <<Frame("deep", given), Frame("scan", given)>>
    /\ UNCHANGED <<outsideScan, scannedImages, filtered, dom, finished>>

\* scanCurrentPage returns {success: true, images}; a performDeepScan that
\* awaits it takes the images and looks for the linked pages
ScanReturns ==
    /\ calls # <<>> /\ calls[Len(calls)].op = "scan"
    /\ LET r == ScanResult(dom, settings, scannedImages)
           top == calls[Len(calls)] IN
       /\ scannedImages' = r.scanned
       /\ filtered' = [given |-> r.found, before |-> scannedImages,
                       images |-> r.images, verdicts |-> r.verdicts]
       /\ IF Len(calls) = 1
          THEN /\ calls' = <<>>
               /\ finished' = Append(finished,
                     Result("scan", top.given, TRUE, r.found, r.images, <<>>))
          ELSE /\ calls' = <<[calls[1] EXCEPT !.inner = "done", !.current = r.images,
                                              !.allImages = r.images,
                                              !.pages = PagesToScan(dom, settings)]>>
               /\ finished' = finished
    /\ StopScanning
    /\ UNCHANGED <<outsideScan, settings, dom>>

\* scanCurrentPage catches an error and returns {success: false, images: []}
ScanThrows ==
    /\ calls # <<>> /\ calls[Len(calls)].op = "scan"
    /\ IF Len(calls) = 1
       THEN /\ calls' = <<>>
            /\ finished' = Append(finished,
                  Result("scan", calls[1].given, FALSE, <<>>, <<>>, <<>>))
       ELSE /\ calls' = <<[calls[1] EXCEPT !.inner = "done",
                                           !.pages = PagesToScan(dom, settings)]>>
            /\ finished' = finished
    /\ StopScanning
    /\ UNCHANGED <<outsideScan, filterVars, dom>>

\* performDeepScan scans one linked page: scanExternalPage returns []
DeepScanPage ==
    /\ Len(calls) = 1 /\ calls[1].op = "deep" /\ calls[1].inner = "done"
    /\ calls[1].pages # <<>>
    /\ calls' = <<[calls[1] EXCEPT !.pages = Tail(@),
                                    !.allImages = @ \o <<>>]>>
    /\ UNCHANGED <<outsideScan, filterVars, dom, isScanning, abortController,
                   mutationObserving, finished>>

\* performDeepScan removes the duplicates, filters and returns
DeepReturns ==
    /\ Len(calls) = 1 /\ calls[1].op = "deep" /\ calls[1].inner = "done"
    /\ calls[1].pages = <<>>
    /\ LET uniqueImages == removeDuplicateImages(calls[1].allImages)
           r == filterAndProcessImages(uniqueImages, settings, scannedImages) IN
       /\ scannedImages' = r.scanned
       /\ filtered' = [given |-> uniqueImages, before |-> scannedImages,
                       images |-> r.images, verdicts |-> r.verdicts]
       /\ finished' = Append(finished,
             Result("deep", calls[1].given, TRUE, calls[1].allImages, r.images,
                    calls[1].current))
    /\ calls' = <<>>
    /\ StopScanning
    /\ UNCHANGED <<outsideScan, settings, dom>>

\* performDeepScan catches an error and returns {success: false, images: []}
DeepThrows ==
    /\ Len(calls) = 1 /\ calls[1].op = "deep" /\ calls[1].inner = "done"
    /\ finished' = Append(finished,
          Result("deep", calls[1].given, FALSE, <<>>, <<>>, calls[1].current))
    /\ calls' = <<>>
    /\ StopScanning
    /\ UNCHANGED <<outsideScan, filterVars, dom>>

ScanNext ==
    \/ \E given \in GivenSettings : ScanCurrentPage(given)
    \/ \E given \in GivenSettings : PerformDeepScan(given)
    \/ ScanReturns
    \/ ScanThrows
    \/ DeepScanPage
    \/ DeepReturns
    \/ DeepThrows

\* scan and deepScan requests, one after the other, on a page that does not change
SpecScan == ScanInit /\ [][ScanNext]_vars

\* ------------------------------------------------------------ infinite scroll
\* the images a basic scan of the loop can return
ScrollCandidates ==
    {ImageData(<<"https://h/a.jpg">>, 200, 200),
     ImageData(<<"https://h/a.jpg", "?", "v=2">>, 200, 200),
     ImageData(<<"https://h/a.jpg">>, 150, 300),
     ImageData(<<"https://h/b.svg">>, 200, 200)}

ScrollFound == UNION {[1..n -> ScrollCandidates] : n \in 0..ScrollFoundMax}

\* phase 3 of scanCurrentPage calls handleInfiniteScroll
HandleInfiniteScroll ==
    /\ ~scroll.running
    /\ scroll' = [ScrollIdle EXCEPT !.running = TRUE]
    /\ UNCHANGED <<queueVars, filterVars, scanVars, patternVars, extractorVars, storageVars>>

\* one pass of the loop, for the images its basic scan returns and the
\* answer of triggerMoreContent
ScrollAttempt(currentImages, loadedMore) ==
    /\ scroll.running
    /\ scroll' = scrollAttempt(scroll, currentImages, loadedMore)
    /\ UNCHANGED <<queueVars, filterVars, scanVars, patternVars, extractorVars, storageVars>>

ScrollNext ==
    \/ HandleInfiniteScroll
    \/ \E currentImages \in ScrollFound, loadedMore \in BOOLEAN :
          ScrollAttempt(currentImages, loadedMore)

\* the loop of handleInfiniteScroll for every list a basic scan can return
SpecScroll == Init /\ [][ScrollNext]_vars

\* every await of the loop settles: the image probes time out and the delays end
SpecScrollFair ==
    /\ SpecScroll
    /\ WF_vars(\E currentImages \in ScrollFound, loadedMore \in BOOLEAN :
                  ScrollAttempt(currentImages, loadedMore))

\* ------------------------------------------------------------ pattern actions
\* the customPatterns texts of the settings
PatternTexts ==
    {<< <<"img.hero">> >>,
     << <<"#", "my site">>, <<"nextPage", ":", ".more">> >>,
     << <<"images", ":", "img.full">>, <<"img[data-src]">> >>}

CustomCount(pats) ==
    IF "custom" \notin DOMAIN pats THEN 0
    ELSE Len(pats.custom.selectors.images) + Len(pats.custom.selectors.nextPage)
           + Len(pats.custom.selectors.pagination)

\* detectSiteType(), as every scan and the page load call it
DetectSiteType ==
    /\ Len(detectedPatterns) < MaxDetected
    /\ detectedPatterns' = detectSiteType(patterns, detectedPatterns, site).detectedPatterns
    /\ UNCHANGED <<queueVars, filterVars, scanVars, scrollVars, extractorVars, storageVars, site, patterns>>

\* parseCustomPatterns(this.settings.customPatterns)
ParseCustomPatterns(text) ==
    /\ CustomCount(patterns) < 2 * MaxCustom
    /\ LET r == parseCustomPatterns(patterns, detectedPatterns, text) IN
       /\ patterns' = r.patterns
       /\ detectedPatterns' = r.detectedPatterns
    /\ UNCHANGED <<queueVars, filterVars, scanVars, scrollVars, extractorVars, storageVars, site>>

PatternNext ==
    \/ DetectSiteType
    \/ \E text \in PatternTexts : ParseCustomPatterns(text)

PatternsInit ==
    /\ QueueInit /\ ScannerInit /\ dom = EmptyDocument /\ ScrollInit
    /\ PatternInit /\ site \in Sites
    /\ ExtractorInit /\ StorageInit

\* detectSiteType and parseCustomPatterns calls in any order on one page
SpecPatterns == PatternsInit /\ [][PatternNext]_vars

\* ------------------------------------------------------------ remote actions
RemoteUrls == {"https://cdn.example.org/a.jpg", "http://img.example.org/b.png"}

\* handleRemoteUrl(url, config) is called
HandleRemoteUrl(url) ==
    /\ ~remote.running
    /\ downloadStats.corsBlocked < RemoteBlocked
    /\ remote' = [NoCall EXCEPT !.url = url, !.running = TRUE]
    /\ UNCHANGED <<queueVars, filterVars, scanVars, scrollVars, patternVars,
                   storageVars, downloadStats, sources>>

\* the call makes its next attempt
RemoteAttempt(outcome) ==
    /\ remote.running
    /\ remote' = remoteAttempt(remote, outcome)
    /\ downloadStats' =
          IF remote.at = 0 /\ outcome # "ok"
          THEN [downloadStats EXCEPT !.corsBlocked = @ + 1] ELSE downloadStats
    /\ UNCHANGED <<queueVars, filterVars, scanVars, scrollVars, patternVars,
                   storageVars, sources>>

RemoteNext ==
    \/ \E url \in RemoteUrls : HandleRemoteUrl(url)
    \/ \E outcome \in Outcomes : RemoteAttempt(outcome)

\* handleRemoteUrl calls, one after the other
SpecRemote == Init /\ [][RemoteNext]_vars

\* ------------------------------------------------------------ source actions
ThumbUrl == <<"https://cdn.example.org/", "thumbnail", "/", "small", ".gif">>
LargeUrl == <<"https://cdn.example.org/", "large", "/", "a", ".png">>
PlainUrl == <<"https://cdn.example.org/", "a", ".jpg">>
PageUrl  == <<"https://cdn.example.org/", "about">>

\* the attributes one element can carry
OwnAttrs ==
    {<<>>, [src |-> PlainUrl], [src |-> ThumbUrl],
     [src |-> PlainUrl] @@ ("data-original" :> LargeUrl)}

AncestorAttrs ==
    {<<>>, "data-src" :> ThumbUrl, "data-full" :> LargeUrl, "data-src" :> PageUrl}

Srcsets == {<<>>, <<[url |-> PlainUrl, x |-> 1], [url |-> LargeUrl, x |-> 4]>>}

Elements ==
    [attrs : OwnAttrs, srcset : Srcsets,
     parents : UNION {[1..n -> AncestorAttrs] : n \in 0..Ancestors}]

\* findBestImageSource(element, config) collects and sorts its sources
FindBestImageSource(element) ==
    /\ sources' = findBestImageSource(element)
    /\ UNCHANGED <<queueVars, filterVars, scanVars, scrollVars, patternVars,
                   storageVars, remote, downloadStats>>

SourcesNext == \E element \in Elements : FindBestImageSource(element)

\* findBestImageSource calls on the elements of a page
SpecSources == Init /\ [][SourcesNext]_vars

\* ------------------------------------------------------------ storage actions
\* the writes of the callers that set an expiry: saveDownloadQueue, setCache
ExpiringWrites ==
    {[key |-> "downloadQueue",
      options |-> [storageType |-> "local", compress |-> TRUE, expire |-> QueueLifetime]],
     [key |-> "cache_a",
      options |-> [storageType |-> "session", expire |-> CacheLifetime]]}

\* the reads of these keys: getDownloadQueue, getCache, and get(key)
\* with no storageType
ExpiringReads ==
    {[key |-> "downloadQueue", options |-> [storageType |-> "local"]],
     [key |-> "cache_a", options |-> [storageType |-> "session"]],
     [key |-> "downloadQueue", options |-> <<>>],
     [key |-> "cache_a", options |-> <<>>]}

\* queue lists and cache entries of three sizes
ListValues ==
    {Value(<<"q1">>, 300, 500), Value(<<"q1", "q2">>, 3000, 2000),
     Value(<<"q1", "q2", "q3">>, 12000, 9000)}

\* set(key, value, options) is called and all its writes end as outcomes says
Set(key, value, options, outcomes) ==
    /\ LET r == set(areas, now, key, value, options, outcomes) IN
       /\ areas' = r.store
       /\ answer' = [op |-> "set", key |-> key, value |-> value.json,
                     error |-> r.error, written |-> r.written,
                     writes |-> Len(outcomes) - Len(r.outcomes)]
    /\ UNCHANGED <<queueVars, filterVars, scanVars, scrollVars, patternVars,
                   extractorVars, now>>

\* get(key, options) is called
Get(key, defaultValue, options) ==
    /\ LET r == get(areas, now, key, defaultValue, options) IN
       /\ areas' = r.store
       /\ answer' = [op |-> "get", key |-> key, found |-> r.found,
                     result |-> r.result, defaultValue |-> defaultValue,
                     at |-> now]
    /\ UNCHANGED <<queueVars, filterVars, scanVars, scrollVars, patternVars,
                   extractorVars, now>>

\* time passes
Advance ==
    /\ now < MaxNow
    /\ now' = now + 1
    /\ UNCHANGED <<queueVars, filterVars, scanVars, scrollVars, patternVars,
                   extractorVars, areas, answer>>

StorageNext ==
    \/ \E w \in ExpiringWrites, value \in ListValues :
          Set(w.key, value, w.options, <<"ok">>)
    \/ \E r \in ExpiringReads : Get(r.key, <<>>, r.options)
    \/ Advance

\* writes that expire, reads and the clock
SpecStorage == Init /\ [][StorageNext]_vars

\* how the writes of one set call can end, the retries of the cascade and
\* the write of cleanupDownloadHistory included
OutcomeLists ==
    {o \in [1..4 -> WriteOutcomes] :
       \A n \in 1..3 : o[n] # "QUOTA_EXCEEDED" => o[n + 1] = "ok"}

\* setCache(key, value)
SetCache(value) ==
    Set("cache_a", value, [storageType |-> "session", expire |-> CacheLifetime], <<"ok">>)

\* set('backups', backups) is called; its writes may be refused
SetBackups(value, outcomes) == Set("backups", value, <<>>, outcomes)

QuotaNext ==
    \/ \E value \in ListValues : SetCache(value)
    \/ \E value \in ListValues, outcomes \in OutcomeLists : SetBackups(value, outcomes)
    \/ Advance

\* writes that the storage areas may refuse
SpecQuota == Init /\ [][QuotaNext]_vars

\* settings objects of several sizes and the defaults of the callers
SettingsValues ==
    {Value([minWidth |-> 100], 300, 600),
     Value([minWidth |-> 200, minHeight |-> 200], 500, 900),
     Value([minWidth |-> 300, customPatterns |-> "img.hero"], 900, 1400),
     Value([minWidth |-> 400, customPatterns |-> "img.full"], 5000, 9000),
     Value([scanDepth |-> 2], 200, 500),
     Value([scanDepth |-> 3, customPatterns |-> "nextPage:.more"], 1500, 1100)}

SettingsDefaults == {<<>>, [minWidth |-> 50, scanDepth |-> 1], [scanDepth |-> 2]}

\* the settings last stored by a setSettings call that returned true
SavedSettings ==
    IF answer.op \in {"setSettings", "getSettings"} THEN answer.saved
    ELSE [present |-> FALSE]

\* setSettings(settings)
SetSettings(value, outcomes) ==
    /\ LET r == set(areas, now, "settings", value,
                    [storageType |-> "sync", compress |-> TRUE], outcomes) IN
       /\ areas' = r.store
       /\ answer' = [op |-> "setSettings", error |-> r.error,
                     saved |-> IF r.error = "" THEN [present |-> TRUE, json |-> value.json]
                               ELSE SavedSettings]
    /\ UNCHANGED <<queueVars, filterVars, scanVars, scrollVars, patternVars,
                   extractorVars, now>>

\* getSettings(defaults)
GetSettings(defaults) ==
    /\ LET r == get(areas, now, "settings", defaults, [storageType |-> "sync"]) IN
       /\ areas' = r.store
       /\ answer' = [op |-> "getSettings", defaults |-> defaults,
                     result |-> r.result @@ defaults, saved |-> SavedSettings]
    /\ UNCHANGED <<queueVars, filterVars, scanVars, scrollVars, patternVars,
                   extractorVars, now>>

SettingsNext ==
    \/ \E value \in SettingsValues, outcome \in {"ok", "storage error"} :
          SetSettings(value, <<outcome>>)
    \/ \E defaults \in SettingsDefaults : GetSettings(defaults)

\* settings written and read back
SpecSettings == Init /\ [][SettingsNext]_vars

\* the entries added so far; an entry is the number of the call that adds it
Added == IF answer.op = "addToDownloadHistory" THEN answer.added ELSE 0

\* addToDownloadHistory(entry) is called
AddToDownloadHistory ==
    /\ Added < HistoryAdds
    /\ LET r == addToDownloadHistory(areas, now, Added + 1, <<"ok">>) IN
       /\ areas' = r.store
       /\ answer' = [op |-> "addToDownloadHistory", added |-> Added + 1,
                     error |-> r.error]
    /\ UNCHANGED <<queueVars, filterVars, scanVars, scrollVars, patternVars,
                   extractorVars, now>>

HistoryNext == AddToDownloadHistory

\* completed downloads recorded one after the other
SpecHistory == Init /\ [][HistoryNext]_vars

\* ------------------------------------------------------------ state functions
Active(q) == queues[q].activeDownloads

Limit(q) == queues[q].options.concurrentLimit

Pending(q) == WithStatus(queues[q], "pending")

Downloading(q) == WithStatus(queues[q], "downloading")

\* the retry timers that are pending for an item
TimersOf(q, id) == {t \in BagToSet(retryTimers) : t.q = q /\ t.item = id}

\* the executions of an item that are in flight, and the lists that still hold it
Held(q, id) ==
    {v \in BagToSet(invs) :
        v.q = q /\ (v.cur = id \/ \E k \in 1..Len(v.rest) : v.rest[k] = id)}

\* the step that ends in the primed state was a processing tick
TickRan(l) == l \in {"tick", "tick completed"}

\* a retry timer for the item was set in this step
RetryScheduled(q, id) ==
    \E t \in BagToSet(retryTimers') :
        /\ t.q = q /\ t.item = id
        /\ CopiesIn(t, retryTimers') > CopiesIn(t, retryTimers)

\* the delay of the retry timer set in this step
ScheduledDelays(q, id) ==
    {t.delay : t \in {u \in BagToSet(retryTimers') :
                         /\ u.q = q /\ u.item = id
                         /\ CopiesIn(u, retryTimers') > CopiesIn(u, retryTimers)}}

\* every item is completed or failed, nothing is in flight, no retry is pending
AllSettled(q) ==
    /\ \A i \in 1..Len(queues[q].items) :
          queues[q].items[i].status \in {"completed", "failed"}
    /\ Active(q) = {}
    /\ \A id \in ItemIds(queues[q]) : TimersOf(q, id) = {}

\* ------------------------------------------------------------ claims

\* C1: in every reachable state, for every queue, the number of in-flight
\* downloads of the queue (the size of its activeDownloads set) is at most the
\* queue's concurrentLimit.
C1_ActiveWithinLimit ==
    \A q \in DOMAIN queues : Cardinality(Active(q)) <= Limit(q)

\* C2: one processing tick on a running queue with p pending items and
\* s = concurrentLimit - |activeDownloads| free slots moves exactly min(p, s)
\* items from pending to downloading.
C2_TickStartsMinOfPendingAndSlots ==
    [][TickRan(last') =>
         \A q \in qmap :
            (online /\ queues[q].status = "running" /\ AvailableSlots(queues[q]) >= 0) =>
               LET n == Min2(Cardinality(Pending(q)), AvailableSlots(queues[q])) IN
               /\ Cardinality(WithStatus(queues'[q], "downloading"))
                     = Cardinality(Downloading(q)) + n
               /\ Cardinality(WithStatus(queues'[q], "pending"))
                     = Cardinality(Pending(q)) - n]_vars

\* C3: no item is started while a pending item of strictly higher priority
\* exists in the same queue.
C3_NoStartBelowPendingPriority ==
    [][\A q \in DOMAIN queues : \A i \in 1..Len(queues[q].items) :
          LET it == queues[q].items[i] IN
          ItemOf(queues'[q], it.id).attempts > it.attempts =>
             ~ \E j \in 1..Len(queues[q].items) :
                  /\ queues[q].items[j].status = "pending"
                  /\ queues[q].items[j].priority > it.priority]_vars

\* C4: an item's attempts never exceed the queue's retryAttempts, and an item
\* that has failed retryAttempts times stays failed and is not executed again.
C4_AttemptsWithinRetryCap ==
    [][\A q \in DOMAIN queues : \A i \in 1..Len(queues[q].items) :
          LET it  == queues[q].items[i]
              new == ItemOf(queues'[q], it.id)
          IN  /\ new.attempts <= queues[q].options.retryAttempts
              /\ (it.status = "failed" /\ it.failures >= queues[q].options.retryAttempts)
                    => (new.status = "failed" /\ new.attempts = it.attempts)]_vars

\* C5: with retryAttempts = N and an executor that fails every time, an item is
\* retried exactly N times: each of its failures 1..N is followed by a retry,
\* and failure N+1 is terminal.
C5_RetriedRetryAttemptsTimes ==
    [][\A q \in DOMAIN queues : \A i \in 1..Len(queues[q].items) :
          LET it  == queues[q].items[i]
              new == ItemOf(queues'[q], it.id)
          IN  (new.failures = it.failures + 1 /\ new.failures = new.attempts) =>
                 (RetryScheduled(q, it.id) <=> new.failures <= queues[q].options.retryAttempts)]_vars

\* C6: the retry set after the failure of an item's attempt number k is delayed
\* by retryDelay * 2^(k-1), and it is no shorter than the item's retry before it.
C6_BackoffDelay ==
    [][\A q \in DOMAIN queues : \A i \in 1..Len(queues[q].items) :
          LET it  == queues[q].items[i]
              new == ItemOf(queues'[q], it.id)
          IN  \A d \in ScheduledDelays(q, it.id) :
                 /\ d = queues[q].options.retryDelay * (2 ^ (new.attempts - 1))
                 /\ d >= it.lastDelay]_vars

\* an item's second retry is pending, delayed twice as long as its first
C6_Witness ==
    \E q \in DOMAIN queues : \E t \in BagToSet(retryTimers) :
        /\ t.q = q
        /\ ItemOf(queues[q], t.item).failures = 2
        /\ ItemOf(queues[q], t.item).attempts = 2
        /\ t.delay = 2 * RetryDelay

\* C7: an item that failed below the retry cap is reset to pending and executed
\* again, also when its queue was paused while the backoff delay elapsed: in a
\* running queue such an item always has its retry still ahead of it.
C7_FailedBelowCapAwaitsRetry ==
    \A q \in qmap : \A i \in 1..Len(queues[q].items) :
        LET it == queues[q].items[i] IN
        (/\ queues[q].status = "running"
         /\ it.status = "failed"
         /\ it.attempts < queues[q].options.retryAttempts
         /\ Held(q, it.id) = {})
            => TimersOf(q, it.id) # {}

\* C8: a queue becomes completed only when it has no pending item, no active
\* download and no failed item below the retry cap that waits for its retry.
C8_CompletedOnlyWithoutWork ==
    [][\A q \in DOMAIN queues :
          (queues[q].status # "completed" /\ queues'[q].status = "completed") =>
             /\ WithStatus(queues'[q], "pending") = {}
             /\ queues'[q].activeDownloads = {}
             /\ ~ \E i \in 1..Len(queues'[q].items) :
                    /\ queues'[q].items[i].status = "failed"
                    /\ queues'[q].items[i].attempts < queues'[q].options.retryAttempts
                    /\ \E t \in BagToSet(retryTimers') :
                          t.q = q /\ t.item = queues'[q].items[i].id]_vars

\* C9: a running queue whose items are all completed or failed, with no active
\* download and no retry timer pending, has status completed after the next
\* processing tick.
C9_CompletedAfterNextTick ==
    [][TickRan(last') =>
         \A q \in qmap :
            (queues[q].status = "running" /\ AllSettled(q)) =>
               queues'[q].status = "completed"]_vars

\* C10: no item accepted into a queue created with autoStart disappears from
\* the active queues while it is pending.
C10_PendingItemStaysInActiveQueues ==
    \A q \in DOMAIN queues :
        (queues[q].options.autoStart /\ q \notin qmap /\ queues[q].status # "stopped")
            => Pending(q) = {}

\* C11: pauseQueue(A) and stopQueue(A) leave every other queue B as it was:
\* B's status, B's items with their statuses, and B's activeDownloads.
C11_PauseStopLeaveOtherQueues ==
    [][\A a \in QueueIds :
          (PauseQueue(a) \/ StopQueue(a)) =>
             \A b \in QueueIds \ {a} : queues'[b] = queues[b]]_vars

\* one queue has been paused or stopped while another one is running with a
\* download in flight
C11_Witness ==
    \E a \in QueueIds, b \in QueueIds :
        /\ a # b
        /\ queues[a].status \in {"paused", "stopped"}
        /\ queues[a].items # <<>>
        /\ queues[b].status = "running"
        /\ Active(b) # {}

\* C12: a queue that is paused because the network is offline, or by hand, is
\* still paused after the tab becomes visible while the network is still
\* offline or the manual pause still stands.
C12_VisibleKeepsOtherPauses ==
    [][(hidden /\ ~hidden') =>
          \A q \in qmap :
             (/\ queues[q].status = "paused"
              /\ \/ queues[q].pauseReason = "network" /\ ~online
                 \/ queues[q].pauseReason = "user_request")
                => queues'[q].status = "paused"]_vars

\* C13: after the offline event every queue of the Map is paused with reason
\* network; with autoResume disabled the online event changes no queue's status.
C13_OfflinePausesOnlineResumes ==
    [][/\ (online /\ ~online') =>
             \A q \in qmap : /\ queues'[q].status = "paused"
                             /\ queues'[q].pauseReason = "network"
       /\ (~online /\ online' /\ ~AutoResume) =>
             \A q \in qmap : queues'[q].status = queues[q].status]_vars

\* C14: persistQueues saves every queue of the Map with its status and items,
\* and after loadPersistedQueues every saved queue is in the Map with status
\* paused, with the same items in the same order, each with its saved attempts
\* and its saved status, except that a saved downloading item is pending.
C14_RestoreResetsDownloading ==
    [][/\ (storage' # storage) =>
             /\ DOMAIN storage' = qmap
             /\ \A q \in qmap : /\ storage'[q].status = queues[q].status
                                /\ storage'[q].items = queues[q].items
       /\ (last' = "restart") =>
             /\ qmap' = DOMAIN storage
             /\ \A q \in DOMAIN storage :
                   /\ queues'[q].status = "paused"
                   /\ Len(queues'[q].items) = Len(storage[q].items)
                   /\ \A i \in 1..Len(storage[q].items) :
                         LET old == storage[q].items[i]
                             new == queues'[q].items[i]
                         IN  /\ new.id = old.id
                             /\ new.attempts = old.attempts
                             /\ new.priority = old.priority
                             /\ new.status = IF old.status = "downloading"
                                              THEN "pending" ELSE old.status]_vars

\* a running queue was saved with one item completed and one downloading, and
\* has just been restored
C14_Witness ==
    /\ last = "restart"
    /\ \E q \in qmap :
          /\ storage[q].status = "running"
          /\ \E i \in 1..Len(storage[q].items) : storage[q].items[i].status = "downloading"
          /\ \E i \in 1..Len(storage[q].items) : storage[q].items[i].status = "completed"
          /\ queues[q].status = "paused"
          /\ Downloading(q) = {}

\* C15: a queue restored from persistence stays paused until resumeQueue or
\* startQueue is asked for it: a network or visibility event right after the
\* restore leaves every restored queue paused.
C15_RestoredStaysPaused ==
    [][(last = "restart" /\ (online' # online \/ hidden' # hidden)) =>
          \A q \in qmap : queues'[q].status = "paused"]_vars

\* C16: while a queue is paused or stopped, a download of it that resolves is
\* discarded: no item of the queue becomes completed and the queue's completed
\* count does not grow.
C16_ResultDiscardedWhilePaused ==
    [][\A q \in DOMAIN queues :
          (q \in DOMAIN queues' /\ queues[q].status \in {"paused", "stopped"}) =>
             /\ queues'[q].progress.completed = queues[q].progress.completed
             /\ \A i \in 1..Len(queues[q].items) :
                   LET it == queues[q].items[i] IN
                   ItemOf(queues'[q], it.id).status = "completed" => it.status = "completed"]_vars

\* C17: createQueue with an id that names a queue of the Map fails with an
\* error and leaves the queues and the Map as they were.
C17_CreateExistingFails ==
    [][\A id \in RequestIds(ErrorBudget), l \in ErrorBudget.limits,
         r \in ErrorBudget.retries, a \in BOOLEAN :
          CreateExistingQueue(id, Options(l, r, DefaultPriority, a)) =>
             /\ last' = "Queue already exists"
             /\ queues' = queues
             /\ qmap' = qmap]_vars

\* a createQueue for the id of a queue that holds items was just rejected
C17_Witness ==
    /\ last = "Queue already exists"
    /\ \E q \in qmap : queues[q].items # <<>> /\ queues[q].status = "running"

\* C18: addToQueue fails for an id that is not in the Map and for a batch that
\* would make the queue longer than maxQueueSize; a failed call changes no
\* queue; no queue holds more than maxQueueSize items.
C18_AddRejectedChangesNothing ==
    [][/\ \A id \in RequestIds(ErrorBudget), b \in Batches(ErrorBudget) :
             AddToQueueRejected(ErrorBudget, id, b) =>
                /\ last' \in {"Queue not found", "Queue size limit exceeded"}
                /\ queues' = queues
       /\ \A q \in DOMAIN queues' : Len(queues'[q].items) <= ErrorBudget.maxsize]_vars

\* a batch was just rejected by a queue that is short of maxQueueSize and
\* cannot take the batch
C18_Witness ==
    /\ last = "Queue size limit exceeded"
    /\ \E q \in qmap : /\ Len(queues[q].items) = SizeSetting - 1
                       /\ queues[q].progress.total = SizeSetting - 1

\* C19: every manageQueue operation for an id that is not in the Map is
\* answered {success: false, error}.
C19_UnknownQueueIsAnError ==
    [][\A op \in ManageOps, id \in RequestIds(ErrorBudget) :
          ManageUnknownQueue(op, id) => last' = "Queue not found"]_vars

\* C20: the status of a queue moves only along created -> running,
\* running <-> paused, {created, running, paused} -> stopped and
\* running -> completed. A task that starts or resumes a queue runs
\* processQueue before it returns, so one step may take created or paused
\* through running to completed.
C20_StatusMovesAlongStateMachine ==
    [][\A q \in DOMAIN queues : q \in DOMAIN queues' =>
          \/ queues'[q].status = queues[q].status
          \/ <<queues[q].status, queues'[q].status>> \in
                {<<"created", "running">>, <<"running", "paused">>,
                 <<"paused", "running">>, <<"created", "stopped">>,
                 <<"running", "stopped">>, <<"paused", "stopped">>,
                 <<"running", "completed">>,
                 <<"created", "completed">>, <<"paused", "completed">>}]_vars

\* the normalized URL and the reported size of a candidate
Identity(img) == <<BeforeQuery(img.url), img.width, img.height>>

\* the candidate passes the file type, size and URL filters of the call
PassesPlainFilters(img) ==
    /\ passesFileTypeFilter(img, settings)
    /\ img.width >= settings.minWidth /\ img.height >= settings.minHeight
    /\ isValidImageUrl(img.url)

C25_RejectedNeverRegisters ==
    /\ \A i \in 1..Len(filtered.given) :
          LET img == filtered.given[i] IN
          /\ ~passesFileTypeFilter(img, settings) => filtered.verdicts[i] = "type"
          /\ (passesFileTypeFilter(img, settings) /\
                (img.width < settings.minWidth \/ img.height < settings.minHeight))
                => filtered.verdicts[i] = "size"
          /\ filtered.verdicts[i] = "url" => ~isValidImageUrl(img.url)
    /\ \A key \in scannedImages \ filtered.before :
          \E k \in 1..Len(filtered.images) : Identity(filtered.images[k]) = key
    /\ \A key \in scannedImages :
          \/ key \in filtered.before
          \/ \E i \in 1..Len(filtered.given) :
                filtered.verdicts[i] = "" /\ Identity(filtered.given[i]) = key

\* a call rejected one candidate by its size and returned the other, and
\* only the key of the other is registered
C25_Witness ==
    /\ Len(filtered.given) = 2
    /\ filtered.verdicts = <<"size", "">>
    /\ filtered.before = {}
    /\ scannedImages = {Identity(filtered.given[2])}
    /\ Identity(filtered.given[1]) \notin scannedImages

Ids(images) == {images[i].id : i \in 1..Len(images)}

\* C22: every image that scanCurrentPage returned for the current page is
\* in the result of the performDeepScan that called it.
C22_DeepScanKeepsCurrentPage ==
    \A k \in 1..Len(finished) :
       (finished[k].op = "deep" /\ finished[k].success)
          => Ids(finished[k].current) \subseteq Ids(finished[k].images)

\* the element is among the candidates the scan found
Found(res, url, el) ==
    \E i \in 1..Len(res.found) :
       /\ res.found[i].url = url
       /\ res.found[i].width = el.width /\ res.found[i].height = el.height

\* the element is excluded exactly when it is narrower than minWidth or
\* lower than minHeight
InclusiveBoundary(res, url, el) ==
    LET st == MergeSettings(res.given) IN
    Found(res, url, el) <=> ~(el.width < st.minWidth \/ el.height < st.minHeight)

\* C23: on the canvas, video frame and background paths of a scan with blob
\* sources enabled, a candidate is excluded exactly when width < minWidth
\* or height < minHeight.
C23_InclusiveMinimumSize ==
    \A k \in 1..Len(finished) :
       (finished[k].op = "scan" /\ finished[k].success
          /\ MergeSettings(finished[k].given).fileTypes.blob)
          => /\ \A i \in 1..Len(dom.canvases) :
                   InclusiveBoundary(finished[k], DataUrl(dom.canvases[i]), dom.canvases[i])
             /\ \A i \in 1..Len(dom.videos) :
                   InclusiveBoundary(finished[k], DataUrl(dom.videos[i]), dom.videos[i])
             /\ \A i \in 1..Len(dom.backgrounds) :
                   InclusiveBoundary(finished[k], dom.backgrounds[i].url, dom.backgrounds[i])

\* C24: two consecutive successful scans of the page with the same settings
\* return the same set of images.
C24_SameScanSameImages ==
    \A k \in 1..(Len(finished) - 1) :
       (/\ finished[k].op = "scan" /\ finished[k + 1].op = "scan"
        /\ finished[k].success /\ finished[k + 1].success
        /\ finished[k].given = finished[k + 1].given)
          => Ids(finished[k].images) = Ids(finished[k + 1].images)

\* C26: a scan or deep scan is in progress exactly when isScanning is true,
\* the abort controller is live and the mutation observer observes.
C26_ObservingExactlyWhileScanning ==
    /\ calls # <<>> => (isScanning /\ abortController = "live" /\ mutationObserving)
    /\ calls = <<>> => (~isScanning /\ abortController = "none" /\ ~mutationObserving)

\* C27: a handleInfiniteScroll call makes at most 10 attempts, goes on only
\* while fewer than 3 attempts in a row added no image and the last trigger
\* loaded more content, holds no two images of one key, and ends.
C27_InfiniteScrollEnds ==
    /\ [](/\ scroll.attempts <= MaxScrollAttempts
          /\ scroll.running => (scroll.idle < NoChangeStop /\ scroll.loadedMore)
          /\ \A i, j \in 1..Len(scroll.allImages) :
                Identity(scroll.allImages[i]) = Identity(scroll.allImages[j]) => i = j)
    /\ (scroll.running ~> ~scroll.running)

\* the loop was left at its third attempt in a row without a new image
C27_Witness ==
    /\ ~scroll.running
    /\ scroll.attempts = NoChangeStop /\ scroll.idle = NoChangeStop
    /\ scroll.allImages = <<>> /\ scroll.loadedMore

IsPrefix(a, b) == Len(a) <= Len(b) /\ SubSeq(b, 1, Len(a)) = a

\* C28: once custom selectors were added, getOptimizedSelectors() returns
\* the custom selectors first in each of its lists.
C28_CustomSelectorsFirst ==
    "custom" \in DOMAIN patterns =>
       \A kind \in {"images", "nextPage", "pagination"} :
          IsPrefix(Dedupe(patterns.custom.selectors[kind]),
                   getOptimizedSelectors(patterns, detectedPatterns)[kind])

\* the attempts of the call so far went to the url itself and then to the
\* proxies in list order
InListOrder ==
    /\ Len(remote.attempts) <= 1 + Len(corsProxyUrls)
    /\ \A n \in 1..Len(remote.attempts) :
          remote.attempts[n].target = FetchTarget(remote.url, n - 1)

\* the call returns a descriptor, and the fallback one exactly when the
\* direct fetch and every proxy were tried and failed
FallbackWhenAllFail ==
    ~remote.running /\ remote.url # "" =>
       /\ remote.result.type \in {"remote-direct", "remote-proxy", "remote-fallback"}
       /\ remote.result.url = remote.url
       /\ remote.result.type = "remote-fallback" <=>
             /\ Len(remote.attempts) = 1 + Len(corsProxyUrls)
             /\ \A n \in 1..Len(remote.attempts) : remote.attempts[n].outcome # "ok"
       /\ remote.result.type = "remote-fallback" => remote.result.downloadUrl = remote.url
       /\ remote.result.type = "remote-direct" => Len(remote.attempts) = 1
       /\ remote.result.type = "remote-proxy" => Len(remote.attempts) > 1

\* C29 as stated: direct fetch, then the proxies in list order, a fallback
\* descriptor when all fail, and no attempt after one whose fetch succeeded
\* (whose fetchWithTimeout returned a response).
C29_NoProxyAfterFetchSucceeded ==
    /\ InListOrder
    /\ FallbackWhenAllFail
    /\ \A n \in 1..Len(remote.attempts) :
          remote.attempts[n].outcome # "fetchThrows" => n = Len(remote.attempts)

\* C29 as amended: direct fetch, then the proxies in list order, a fallback
\* descriptor when all fail, and no attempt after one that succeeded, an
\* attempt succeeding when its fetch returns and its body is read.
C29_NoProxyAfterSuccess ==
    /\ InListOrder
    /\ FallbackWhenAllFail
    /\ \A n \in 1..Len(remote.attempts) :
          remote.attempts[n].outcome = "ok" =>
             n = Len(remote.attempts) /\ ~remote.running

\* every attempt failed, the first after its fetch returned, and the call
\* returned the fallback descriptor
C29_Witness ==
    /\ ~remote.running
    /\ remote.result.type = "remote-fallback"
    /\ Len(remote.attempts) = 1 + Len(corsProxyUrls)
    /\ remote.attempts[1].outcome = "blobThrows"
    /\ remote.result.downloadUrl = remote.url

\* C30: every source findBestImageSource considers has a quality score
\* within 0..100, the sources taken from ancestors included.
C30_QualityWithinRange ==
    \A n \in 1..Len(sources) : sources[n].quality \in 0..100

\* C31: a read that finds a record whose _expires is in the past returns
\* the default value and removes the record, so that every later read of
\* the key returns the default too; a record that is not expired is
\* returned.
C31_ExpiredReadsAsAbsent ==
    answer.op = "get" /\ answer.found.present =>
       IF Expired(answer.found, answer.at)
       THEN /\ answer.result = answer.defaultValue
            /\ \A type \in DOMAIN areas : ~areas[type][answer.key].present
            /\ \A r \in ExpiringReads :
                  r.key = answer.key =>
                     get(areas, now, r.key, answer.defaultValue, r.options).result
                        = answer.defaultValue
       ELSE answer.result = answer.found.data.of

\* a read found an expired record
C31_Witness ==
    /\ answer.op = "get" /\ answer.found.present
    /\ Expired(answer.found, answer.at)
    /\ answer.result = answer.defaultValue
    /\ ~areas.local[answer.key].present

\* C32: when a write hits the quota, set fails only if every strategy of
\* the cleanup cascade failed: a call one of whose retries stored the value
\* returns true.
C32_StoredMeansSuccess ==
    answer.op = "set" /\ answer.written => answer.error = ""

\* C33: after a setSettings(s) that succeeded, getSettings(defaults) returns
\* the defaults overridden by s, whatever the size of s.
C33_SettingsRoundTrip ==
    answer.op = "getSettings" /\ answer.saved.present =>
       answer.result = answer.saved.json @@ answer.defaults

\* C34: after n calls of addToDownloadHistory the stored history holds the
\* min(n, 1000) entries added last, the newest first.
C34_HistoryKeepsNewestThousand ==
    answer.op = "addToDownloadHistory" =>
       LET history == areas.local.downloadHistory.data.of IN
       /\ Len(history) = Min(answer.added, HistoryCap)
       /\ \A n \in 1..Len(history) : history[n] = answer.added - n + 1

\* an item of the queue q changes its status in this step
ItemStatusChanges(q) ==
    \E id \in ItemIds(queues[q]) :
       ItemOf(queues'[q], id).status # ItemOf(queues[q], id).status

\* C35: after every step in which an item starts, completes or fails, the
\* queue's progress.percentage is 100 * (completed + failed) / total, and
\* within 0..100.
C35_PercentageFollowsItems ==
    [][\A q \in DOMAIN queues :
          ItemStatusChanges(q) =>
             LET progress == queues'[q].progress IN
             /\ progress.percentage
                   = ((progress.completed + progress.failed) * 100) \div progress.total
             /\ progress.percentage \in 0..100]_vars

\* C36: the progress counters of a queue agree with its items: completed
\* and failed count the items of that status, inProgress counts the items
\* downloading and is not negative, and the three together stay within
\* total.
C36_CountersAgreeWithItems ==
    \A q \in DOMAIN queues :
       LET progress == queues[q].progress IN
       /\ progress.completed = Cardinality(WithStatus(queues[q], "completed"))
       /\ progress.failed = Cardinality(WithStatus(queues[q], "failed"))
       /\ progress.inProgress = Cardinality(WithStatus(queues[q], "downloading"))
       /\ progress.inProgress >= 0
       /\ progress.completed + progress.failed + progress.inProgress <= progress.total

\* C37: an item has status downloading exactly when its id is in the
\* activeDownloads set of its queue.
C37_DownloadingIffActive ==
    \A q \in DOMAIN queues :
       WithStatus(queues[q], "downloading") = queues[q].activeDownloads

\* the executeDownload promises pending for the item id of the queue q
Executions(b, q, id) ==
    LET mine == {v \in BagToSet(b) : v.q = q /\ v.cur = id} IN
    BagCardinality([v \in mine |-> CopiesIn(v, b)])

\* C38: an item has at most one execution in flight, and a download is
\* started only for an item that is pending.
C38_OneExecutionPerItem ==
    [][\A q \in DOMAIN queues : \A id \in ItemIds(queues[q]) :
          /\ Executions(invs', q, id) <= 1
          /\ ItemOf(queues'[q], id).attempts > ItemOf(queues[q], id).attempts
                => ItemOf(queues[q], id).status = "pending"]_vars

\* C39: a queue leaves the active queues for the completed-queue history
\* only while its status is completed.
C39_ArchivedOnlyWhenCompleted ==
    [][\A q \in qmap \ qmap' : queues[q].status = "completed"]_vars

\* C40: addToQueue stores each item with the priority handed in with it,
\* 0 included, and keeps the items ordered by priority descending, in
\* insertion order among equal priorities.
C40_GivenPriorityKept ==
    \A q \in DOMAIN queues :
       LET items == queues[q].items IN
       /\ \A n \in 1..Len(items) : items[n].priority = items[n].given
       /\ \A n, m \in 1..Len(items) :
             n < m => \/ items[n].priority > items[m].priority
                      \/ /\ items[n].priority = items[m].priority
                         /\ items[n].id < items[m].id

====
